---- MODULE Spec2Model ----
(***************************************************************************)
(* Model of the Bokio VAB XML editor: the page component (pages/index.tsx)  *)
(* that holds the parsed declaration and the list of cases ("Arende"), and  *)
(* the case list component (components/ArendeList.tsx) that adds and        *)
(* removes absence records ("Franvarouppgift").                             *)
(*                                                                          *)
(* Representation of values.                                                *)
(*  - A text is a tuple of tokens; the empty tuple is the empty string (a   *)
(*    falsy value in the source).  Identifiers, periods and specification   *)
(*    numbers are spelled digit by digit, so that parseInt, toString and    *)
(*    the digit tests are computed, not assumed.                            *)
(*  - An XML element of the compact tree is a record with kind "object";    *)
(*    a property that is not there is Undefined.                            *)
(*  - A repeated element is stored by the parser as Undefined (no           *)
(*    occurrence), as the bare object (one occurrence) or as an array (two  *)
(*    or more): see AsStored.                                               *)
(*  - The field ref of an absence record is the identity of the JavaScript  *)
(*    object: the position of the element in the parsed document, and 0 for *)
(*    an object created by handleAddFranvaro.                               *)
(***************************************************************************)
EXTENDS Integers, Sequences, FiniteSets, TLC

VARIABLES xmlContent, parsedXml, arendeInfoList, validationErrors, isValid, last

vars == <<xmlContent, parsedXml, arendeInfoList, validationErrors, isValid, last>>

(***************************************************************************)
(* Bounds of the model.                                                     *)
(***************************************************************************)
\* Largest number of Blankett elements in an uploaded document.
MaxBlankett == 2
\* Largest number of Franvarouppgift elements in an uploaded document.
MaxFranvaro == 2
\* Largest length of a case's franvaroList at which a record is still added.
MaxList == 3
\* Largest specification number handleAddFranvaro is let to assign.
MaxSpecNr == 3

\* The longest list of a case in a session with the form.
MaxFormList == 2

\* The largest number of nodes between the tags of an element of a text.
MaxChildren == 3

\* The largest number of parts of a path handed to extractFromXML.
MaxPath == 3

\* The number of days of the month of a period.  Day 0 is the last day of
\* the month before, day MonthDays + 1 the first day of the month after.
MonthDays == 4

(***************************************************************************)
(* JavaScript values.                                                       *)
(***************************************************************************)
Null == [kind |-> "null"]
Undefined == [kind |-> "undefined"]
Elem(text, faltkod) == [kind |-> "object", _text |-> text, faltkod |-> faltkod]
Arr(items) == [kind |-> "array", items |-> items]

IsArray(v) == v.kind = "array"

Digits == {"0", "1", "2", "3", "4", "5", "6", "7", "8", "9"}

DigitVal(c) ==
  CASE c = "0" -> 0 [] c = "1" -> 1 [] c = "2" -> 2 [] c = "3" -> 3
    [] c = "4" -> 4 [] c = "5" -> 5 [] c = "6" -> 6 [] c = "7" -> 7
    [] c = "8" -> 8 [] c = "9" -> 9

DigitChar(d) == <<"0", "1", "2", "3", "4", "5", "6", "7", "8", "9">>[d + 1]

\* A JavaScript number: an integer or NaN.
Num(n) == [nan |-> FALSE, n |-> n]
NaN == [nan |-> TRUE, n |-> 0]

\* Number of leading decimal digits of a text.
RECURSIVE LeadingDigits(_)
LeadingDigits(t) ==
  IF t = <<>> \/ Head(t) \notin Digits THEN 0 ELSE 1 + LeadingDigits(Tail(t))

RECURSIVE DecimalValue(_, _)
DecimalValue(t, k) ==
  IF k = 0 THEN 0 ELSE 10 * DecimalValue(t, k - 1) + DigitVal(t[k])

\* parseInt(text, 10): the value of the leading digits, NaN when there are none.
parseInt(t) ==
  IF LeadingDigits(t) = 0 THEN NaN ELSE Num(DecimalValue(t, LeadingDigits(t)))

RECURSIVE NatToString(_)
NatToString(n) ==
  IF n < 10 THEN <<DigitChar(n)>> ELSE NatToString(n \div 10) \o <<DigitChar(n % 10)>>

\* Number.prototype.toString of the sum maxSpecNr + 1.
toString(x) == IF x.nan THEN <<"N", "a", "N">> ELSE NatToString(x.n)

\* The 1 is not added: the bug a mutant of PlusOne has.
PlusNothing(x) == x

\* x + 1 on JavaScript numbers.
PlusOne(x) == IF x.nan THEN NaN ELSE Num(x.n + 1)

\* Math.max of a non-empty list of numbers: NaN as soon as one argument is NaN.
RECURSIVE MathMax(_)
MathMax(xs) ==
  IF Len(xs) = 1 THEN xs[1]
  ELSE LET m == MathMax(Tail(xs))
       IN  IF xs[1].nan \/ m.nan THEN NaN
           ELSE IF xs[1].n >= m.n THEN xs[1] ELSE m

\* Helper to safely get text from XML objects.
getTextContent(obj) ==
  IF obj.kind # "object" THEN <<>> ELSE obj._text

\* How the parser stores the occurrences of a repeated element.
AsStored(items) ==
  IF Len(items) = 0 THEN Undefined
  ELSE IF Len(items) = 1 THEN items[1]
  ELSE Arr(items)

(***************************************************************************)
(* Texts of the uploaded documents.                                         *)
(***************************************************************************)
\* Arendeagare / AgRegistreradId: a 12 digit organisation number.
OwnerA == <<"1", "6", "5", "5", "6", "6", "7", "7", "8", "8", "9", "9">>
\* BetalningsmottagarId of two employees.
R1 == <<"1", "9", "8", "0", "0", "1", "0", "1", "0", "0", "0", "1">>
R2 == <<"1", "9", "9", "0", "0", "2", "0", "2", "0", "0", "0", "2">>
\* Two reporting periods (YYYYMM).
P1 == <<"2", "0", "2", "5", "0", "2">>
P2 == <<"2", "0", "2", "5", "0", "3">>

TFP == <<"TILLFALLIG_FORALDRAPENNING">>
FP == <<"FORALDRAPENNING">>

\* A Franvarouppgift element: every child is an element or Undefined.
Franvaro(ref, ag, bm, datum, spec, typ, period, pFP, tFP, pTFP, tTFP) ==
  [kind |-> "object", ref |-> ref,
   AgRegistreradId |-> ag, BetalningsmottagarId |-> bm, FranvaroDatum |-> datum,
   FranvaroSpecifikationsnummer |-> spec, FranvaroTyp |-> typ,
   RedovisningsPeriod |-> period,
   FranvaroProcentFP |-> pFP, FranvaroTimmarFP |-> tFP,
   FranvaroProcentTFP |-> pTFP, FranvaroTimmarTFP |-> tTFP]

\* An absence record as it is found in an uploaded document (a TFP day of
\* 8 hours), with recipient id, period and specification number as given;
\* spec is the element FranvaroSpecifikationsnummer or Undefined.
DocFranvaro(bm, period, spec) ==
  Franvaro(0, Elem(OwnerA, "201"), Elem(bm, "215"), Elem(<<"2025-02-03">>, "821"),
           spec, Elem(TFP, "823"), Elem(period, "006"),
           Undefined, Undefined, Undefined, Elem(<<"8.00">>, "825"))

\* The absence records the uploaded documents are built from.
FranvaroKinds ==
  { DocFranvaro(R1, P1, Elem(<<"1">>, "822")),
    DocFranvaro(R1, P1, Elem(<<"2">>, "822")),
    DocFranvaro(R1, P2, Elem(<<"1">>, "822")),
    DocFranvaro(R1, P1, Elem(<<"x">>, "822")),
    DocFranvaro(R1, P1, Undefined) }

\* A Blankett element.  The path BetalningsmottagareIUGROUP.
\* BetalningsmottagareIDChoice.BetalningsmottagarId below IU is kept as the
\* one property BetalningsmottagarId of IU: Undefined when a step of the path
\* is missing.
Arendeinformation(agare, period) ==
  [kind |-> "object", Arendeagare |-> agare, Period |-> period]

Blankettinnehall(iu) == [kind |-> "object", IU |-> iu]

IU(bm) == [kind |-> "object", BetalningsmottagarId |-> bm]

Blankett(info, innehall) ==
  [kind |-> "object", Arendeinformation |-> info, Blankettinnehall |-> innehall]

IUBlankett(period, bm) ==
  Blankett(Arendeinformation(Elem(OwnerA, ""), Elem(period, "")),
           Blankettinnehall(IU(Elem(bm, "215"))))

\* The declaration forms the uploaded documents are built from: three
\* individual forms (IU), a form of the employer without IU, a form without
\* content block, an IU form without Arendeinformation and an IU form whose
\* recipient id is missing.
BlankettKinds ==
  { IUBlankett(P1, R1), IUBlankett(P1, R2), IUBlankett(P2, R1),
    Blankett(Arendeinformation(Elem(OwnerA, ""), Elem(P1, "")), Blankettinnehall(Undefined)),
    Blankett(Arendeinformation(Elem(OwnerA, ""), Elem(P1, "")), Undefined),
    Blankett(Undefined, Blankettinnehall(IU(Elem(R1, "215")))),
    Blankett(Arendeinformation(Elem(OwnerA, ""), Elem(P1, "")), Blankettinnehall(IU(Undefined))) }

TekniskKontaktperson(namn, telefon, epost) ==
  [kind |-> "object", Namn |-> namn, Telefon |-> telefon, Epostadress |-> epost]

Avsandare(prog, org, kontakt, skapad) ==
  [kind |-> "object", Programnamn |-> prog, Organisationsnummer |-> org,
   TekniskKontaktperson |-> kontakt, Skapad |-> skapad]

\* An e-mail address is spelled as runs of word characters and separators.
EpostOK == <<"anna", "@", "bokio", ".", "se">>

KontaktOK ==
  TekniskKontaktperson(Elem(<<"Anna">>, ""), Elem(<<"0701234567">>, ""), Elem(EpostOK, ""))

AvsandareOK ==
  Avsandare(Elem(<<"Lonesystemet">>, ""), Elem(OwnerA, ""), KontaktOK,
            Elem(<<"2025-03-01T10:00:00">>, ""))

\* The sender blocks of the uploaded documents: complete, without
\* Programnamn, and missing.
AvsandareKinds ==
  { AvsandareOK,
    Avsandare(Undefined, Elem(OwnerA, ""), KontaktOK, Elem(<<"2025-03-01T10:00:00">>, "")),
    Undefined }

\* The root element; xmlns and xmlns_xsi are the two namespace attributes
\* (the empty text when the attribute is missing).
Skatteverket(xmlns, xsi, avsandare, blanketter, franvaro) ==
  [kind |-> "object", xmlns |-> xmlns, xmlns_xsi |-> xsi, Avsandare |-> avsandare,
   Blankett |-> blanketter, Franvarouppgift |-> franvaro]

NsAgd == <<"http://xmls.skatteverket.se/se/skatteverket/da/instans/schema/1.1">>
NsXsi == <<"http://www.w3.org/2001/XMLSchema-instance">>

\* All tuples over S of length 0..n.
RECURSIVE SeqsUpTo(_, _)
SeqsUpTo(S, n) ==
  IF n = 0 THEN {<<>>}
  ELSE LET shorter == SeqsUpTo(S, n - 1)
       IN  shorter \cup {Append(s, x) : s \in {t \in shorter : Len(t) = n - 1}, x \in S}

\* The parser gives every Franvarouppgift element its own object.
Numbered(fs) == [k \in 1..Len(fs) |-> [fs[k] EXCEPT !.ref = k]]

\* A declaration with the given sender block, forms and absence records.
Tree(avsandare, bs, fs) ==
  [kind |-> "object",
   Skatteverket |-> Skatteverket(NsAgd, NsXsi, avsandare, AsStored(bs), AsStored(Numbered(fs)))]

\* A document with another root element.
OtherRoot == [kind |-> "object", Skatteverket |-> Undefined]

\* The trees extractArendeInformation is checked on: every sender block with
\* every list of forms and every list of absence records, and a document
\* with another root element.
Trees ==
  { Tree(a, bs, fs) :
       a \in AvsandareKinds,
       bs \in SeqsUpTo(BlankettKinds, MaxBlankett),
       fs \in SeqsUpTo(FranvaroKinds, MaxFranvaro) }
  \cup {OtherRoot}

\* The trees uploaded in a session: every list of at most two of the forms
\* of one employee in two periods (a document may hold two forms with the
\* same employee and period) with every list of at most two absence records
\* of that employee.  To these come single documents: with a specification
\* number that is not a number, without one, without Programnamn, without
\* Avsandare, with another root element, with a form without IU besides an
\* IU form, and with an IU form without Arendeinformation.
SessionBlankettKinds ==
  { IUBlankett(P1, R1), IUBlankett(P2, R1) }

SessionFranvaroKinds ==
  { DocFranvaro(R1, P1, Elem(<<"1">>, "822")),
    DocFranvaro(R1, P2, Elem(<<"1">>, "822")) }

SessionBlankettLists == SeqsUpTo(SessionBlankettKinds, 2)

SessionFranvaroLists == SeqsUpTo(SessionFranvaroKinds, 2)

SessionTrees ==
  { Tree(AvsandareOK, bs, fs) : bs \in SessionBlankettLists, fs \in SessionFranvaroLists }
  \cup { Tree(AvsandareOK, <<IUBlankett(P1, R1)>>,
              <<DocFranvaro(R1, P1, Elem(<<"x">>, "822"))>>),
         Tree(AvsandareOK, <<IUBlankett(P1, R1)>>,
              <<DocFranvaro(R1, P1, Elem(<<"1">>, "822")), DocFranvaro(R1, P1, Undefined)>>),
         Tree(Avsandare(Undefined, Elem(OwnerA, ""), KontaktOK,
                        Elem(<<"2025-03-01T10:00:00">>, "")),
              <<IUBlankett(P1, R1)>>, <<DocFranvaro(R1, P1, Elem(<<"1">>, "822"))>>),
         Tree(Undefined, <<IUBlankett(P1, R1)>>, <<>>),
         OtherRoot,
         Tree(AvsandareOK,
              <<Blankett(Arendeinformation(Elem(OwnerA, ""), Elem(P1, "")),
                         Blankettinnehall(Undefined)),
                IUBlankett(P1, R1)>>,
              <<DocFranvaro(R1, P1, Elem(<<"1">>, "822"))>>),
         Tree(AvsandareOK, <<Blankett(Undefined, Blankettinnehall(IU(Elem(R1, "215"))))>>, <<>>) }

\* The file contents handed to handleFileUpload: the empty string, a text
\* that is not well-formed XML, and the text of a tree.
EmptyText == [kind |-> "empty"]
MalformedText == [kind |-> "malformed"]
XmlOf(tree) == [kind |-> "xml", tree |-> tree]

FileContents == {EmptyText, MalformedText} \cup {XmlOf(t) : t \in SessionTrees}

\* parseXML: the tree of a well-formed text; a text that is not well-formed
\* makes xml2js throw, and parseXML throws "Failed to parse XML file".
parseXML(text) ==
  IF text.kind = "xml" THEN [threw |-> FALSE, value |-> text.tree]
  ELSE [threw |-> TRUE, value |-> Undefined]

(***************************************************************************)
(* pages/index.tsx: extraction of the cases.                                *)
(***************************************************************************)
\* parsedXml.Skatteverket?.Blankett || [], made an array when it is a bare object.
allBlanketter(px) ==
  LET blanketter == IF px.Skatteverket.kind = "object"
                    THEN px.Skatteverket.Blankett ELSE Undefined
  IN  IF blanketter.kind = "undefined" THEN <<>>
      ELSE IF IsArray(blanketter) THEN blanketter.items ELSE <<blanketter>>

\* blankett.Blankettinnehall && blankett.Blankettinnehall.IU
ContainsIU(blankett) ==
  /\ blankett.Blankettinnehall.kind = "object"
  /\ blankett.Blankettinnehall.IU.kind = "object"

iuBlanketter(px) == SelectSeq(allBlanketter(px), ContainsIU)

\* Only the recipient id is compared: the bug a mutant of existingFranvaro has.
existingFranvaroIdOnly(px, betalningsmottagarId, period) ==
  LET stored == px.Skatteverket.Franvarouppgift
      Matches(f) == getTextContent(f.BetalningsmottagarId) = betalningsmottagarId
  IN  IF stored.kind = "undefined" THEN <<>>
      ELSE IF IsArray(stored) THEN SelectSeq(stored.items, Matches)
      ELSE IF Matches(stored) THEN <<stored>> ELSE <<>>

\* The Franvarouppgift elements of the document for one recipient and period:
\* a filter of the array, or the bare object when it matches.
existingFranvaro(px, betalningsmottagarId, period) ==
  LET stored == px.Skatteverket.Franvarouppgift
      Matches(f) == /\ getTextContent(f.BetalningsmottagarId) = betalningsmottagarId
                    /\ getTextContent(f.RedovisningsPeriod) = period
  IN  IF stored.kind = "undefined" THEN <<>>
      ELSE IF IsArray(stored) THEN SelectSeq(stored.items, Matches)
      ELSE IF Matches(stored) THEN <<stored>> ELSE <<>>

\* The case record built for the IU form at position index (from 0).
arendeInfo(px, blankett, index) ==
  LET info == blankett.Arendeinformation
      period == getTextContent(info.Period)
      betalningsmottagarId == getTextContent(blankett.Blankettinnehall.IU.BetalningsmottagarId)
  IN  [index |-> index,
       arendeAgare |-> getTextContent(info.Arendeagare),
       period |-> period,
       betalningsmottagarId |-> betalningsmottagarId,
       blankettInnehall |-> blankett.Blankettinnehall,
       franvaroList |-> existingFranvaro(px, betalningsmottagarId, period)]

\* extractArendeInformation: the list handed to setArendeInfoList, or a
\* TypeError when an IU form has no Arendeinformation (arendeInfo.Arendeagare
\* is read from undefined).
extractArendeInformation(px) ==
  LET forms == iuBlanketter(px)
  IN  IF \E k \in 1..Len(forms) : forms[k].Arendeinformation.kind # "object"
      THEN [threw |-> TRUE, value |-> <<>>]
      ELSE [threw |-> FALSE,
            value |-> [k \in 1..Len(forms) |-> arendeInfo(px, forms[k], k - 1)]]

(***************************************************************************)
(* components/ArendeList.tsx: adding and removing absence records.          *)
(***************************************************************************)
\* The values of the form (FormData) handed to handleAddFranvaro.
FormData(bm, datum, typ, pFP, tFP, pTFP, tTFP) ==
  [betalningsmottagarId |-> bm, franvaroDatum |-> datum, franvaroTyp |-> typ,
   franvaroProcentFP |-> pFP, franvaroTimmarFP |-> tFP,
   franvaroProcentTFP |-> pTFP, franvaroTimmarTFP |-> tTFP]

\* The specification number read from one record:
\* parseInt(f.FranvaroSpecifikationsnummer?._text || '0', 10).
specNr(f) ==
  LET text == getTextContent(f.FranvaroSpecifikationsnummer)
  IN  parseInt(IF text = <<>> THEN <<"0">> ELSE text)

\* The number of records instead of their largest number: the bug a mutant
\* of maxSpecNr has.
maxSpecNrByCount(existing) == Num(Len(existing))

\* The largest specification number of the records, 0 when there is none.
maxSpecNr(existing) ==
  IF Len(existing) > 0
  THEN MathMax([k \in 1..Len(existing) |-> specNr(existing[k])])
  ELSE Num(0)

\* An optional field that is there with an empty text when the value of the
\* form is empty: the bug a mutant of Optional has.
OptionalAlways(value, faltkod) == Elem(value, faltkod)

\* An optional field: there only when the value of the form is not empty.
Optional(value, faltkod) ==
  IF value # <<>> THEN Elem(value, faltkod) ELSE Undefined

\* The record with the recipient id of the form whatever the case holds: the
\* bug a mutant of newFranvaro has.
newFranvaroOfForm(currentArende, franvaro) ==
  Franvaro(0,
    Elem(currentArende.arendeAgare, "201"),
    Elem(franvaro.betalningsmottagarId, "215"),
    Elem(franvaro.franvaroDatum, "821"),
    Elem(toString(PlusOne(maxSpecNr(currentArende.franvaroList))), "822"),
    Elem(franvaro.franvaroTyp, "823"),
    Elem(currentArende.period, "006"),
    Optional(franvaro.franvaroProcentFP, "826"),
    Optional(franvaro.franvaroTimmarFP, "827"),
    Optional(franvaro.franvaroProcentTFP, "824"),
    Optional(franvaro.franvaroTimmarTFP, "825"))

\* The record handleAddFranvaro creates for a case.
newFranvaro(currentArende, franvaro) ==
  Franvaro(0,
    Elem(currentArende.arendeAgare, "201"),
    Elem(IF currentArende.betalningsmottagarId # <<>>
         THEN currentArende.betalningsmottagarId
         ELSE franvaro.betalningsmottagarId, "215"),
    Elem(franvaro.franvaroDatum, "821"),
    Elem(toString(PlusOne(maxSpecNr(currentArende.franvaroList))), "822"),
    Elem(franvaro.franvaroTyp, "823"),
    Elem(currentArende.period, "006"),
    Optional(franvaro.franvaroProcentFP, "826"),
    Optional(franvaro.franvaroTimmarFP, "827"),
    Optional(franvaro.franvaroProcentTFP, "824"),
    Optional(franvaro.franvaroTimmarTFP, "825"))

\* The new record is put first: the bug a mutant of addedFranvaroList has.
addedFranvaroListFirst(currentArende, franvaro) ==
  <<newFranvaro(currentArende, franvaro)>> \o currentArende.franvaroList

\* updatedFranvaroList of handleAddFranvaro.
addedFranvaroList(currentArende, franvaro) ==
  Append(currentArende.franvaroList, newFranvaro(currentArende, franvaro))

Min(a, b) == IF a < b THEN a ELSE b
Max(a, b) == IF a > b THEN a ELSE b

\* The first position splice(start, 1) removes from (counted from 0).
actualStart(len, start) ==
  IF start < 0 THEN Max(len + start, 0) ELSE Min(start, len)

\* Always the first element is removed: the bug a mutant of splicedList has.
splicedListFirst(list, start) ==
  IF Len(list) = 0 THEN list ELSE Tail(list)

\* The copy of the list after splice(start, 1): Array.prototype.splice
\* counts a negative start from the end, clamps it to the list and removes
\* at most one element.
splicedList(list, start) ==
  LET len == Len(list)
      from == actualStart(len, start)
      deleteCount == Min(1, len - from)
  IN  [k \in 1..(len - deleteCount) |-> IF k <= from THEN list[k] ELSE list[k + deleteCount]]

\* handleFranvaroUpdate: a copy of the case list in which the case at
\* arendeIndex (from 0) has the given franvaroList.
handleFranvaroUpdate(list, arendeIndex, franvaroList) ==
  [list EXCEPT ![arendeIndex + 1].franvaroList = franvaroList]

(***************************************************************************)
(* pages/index.tsx: the document that is downloaded.                        *)
(***************************************************************************)
ProgramLiteral == <<"Bokio och vanner">>

RECURSIVE flatMap(_)
flatMap(lists) ==
  IF lists = <<>> THEN <<>> ELSE Head(lists) \o flatMap(Tail(lists))

\* arendeInfoList.flatMap(arende => arende.franvaroList)
allFranvaro(list) == flatMap([k \in 1..Len(list) |-> list[k].franvaroList])

\* { ...Programnamn, _text: "Bokio och vanner" }
modifiedProgramnamn(programnamn) ==
  IF programnamn.kind = "object"
  THEN [programnamn EXCEPT !._text = ProgramLiteral]
  ELSE Elem(ProgramLiteral, "")

\* Only the records of the first case are collected: the bug a mutant of
\* modifiedFranvarouppgift has.
modifiedFranvarouppgiftFirst(list) ==
  IF Len(list) > 0 /\ Len(list[1].franvaroList) > 0
  THEN Arr(list[1].franvaroList) ELSE Undefined

\* allFranvaro.length > 0 ? allFranvaro : undefined
modifiedFranvarouppgift(list) ==
  IF Len(allFranvaro(list)) > 0 THEN Arr(allFranvaro(list)) ELSE Undefined

\* The properties of Skatteverket are not copied: the bug a mutant of
\* modifiedXml has.
modifiedXmlNoSpread(px, list) ==
  IF px.Skatteverket.kind # "object" \/ px.Skatteverket.Avsandare.kind # "object"
  THEN [threw |-> TRUE, value |-> Undefined]
  ELSE [threw |-> FALSE,
        value |-> [kind |-> "object",
          Skatteverket |-> Skatteverket(<<>>, <<>>,
            [px.Skatteverket.Avsandare EXCEPT
               !.Programnamn = [kind |-> "object", _text |-> <<"Bokio och vanner">>,
                                faltkod |-> ""]],
            Undefined,
            IF Len(flatMap([k \in 1..Len(list) |-> list[k].franvaroList])) > 0
            THEN Arr(flatMap([k \in 1..Len(list) |-> list[k].franvaroList]))
            ELSE Undefined)]]

\* modifiedXml of generateModifiedXML: a copy of the tree with the
\* Franvarouppgift of all cases and the program name of this tool; a
\* TypeError when the tree has no Skatteverket or no Avsandare
\* (parsedXml.Skatteverket.Avsandare.Programnamn cannot be read).
modifiedXml(px, list) ==
  IF px.Skatteverket.kind # "object" \/ px.Skatteverket.Avsandare.kind # "object"
  THEN [threw |-> TRUE, value |-> Undefined]
  ELSE [threw |-> FALSE,
        value |-> [px EXCEPT
          !.Skatteverket.Franvarouppgift = modifiedFranvarouppgift(list),
          !.Skatteverket.Avsandare.Programnamn =
             modifiedProgramnamn(px.Skatteverket.Avsandare.Programnamn)]]

\* generateModifiedXML: '' without a parsed document, else the text
\* generateXML makes of modifiedXml.
generateModifiedXML(px, list) ==
  IF px = Null THEN [threw |-> FALSE, value |-> EmptyText]
  ELSE IF modifiedXml(px, list).threw THEN [threw |-> TRUE, value |-> EmptyText]
  ELSE [threw |-> FALSE, value |-> XmlOf(modifiedXml(px, list).value)]

\* The object xml2js makes of an element without content and attributes.
EmptyFranvaro ==
  Franvaro(0, Undefined, Undefined, Undefined, Undefined, Undefined, Undefined,
           Undefined, Undefined, Undefined, Undefined)

\* What xml2js reads from the text js2xml writes for the property
\* Franvarouppgift of modifiedXml: js2xml writes every property of the object
\* it is handed, one with the value undefined as an element without content
\* (<Franvarouppgift></Franvarouppgift>), and an array of one record as one
\* element.
writtenFranvarouppgift(stored) ==
  IF stored.kind = "undefined" THEN EmptyFranvaro
  ELSE IF IsArray(stored) THEN AsStored(stored.items)
  ELSE stored

\* The tree of the text that is downloaded: generateXML(modifiedXml), parsed.
downloadedXml(px, list) ==
  [modifiedXml(px, list).value EXCEPT
     !.Skatteverket.Franvarouppgift = writtenFranvarouppgift(@)]

(***************************************************************************)
(* utils/xmlValidator.ts                                                    *)
(***************************************************************************)
\* An error message; index is the number in the message, 0 when it has none.
Err(msg, index) == [msg |-> msg, index |-> index]

\* The test !element alone, which an element without text passes: the bug a
\* mutant of Missing has.
MissingElement(element) == element.kind # "object"

\* !element || !getTextContent(element)
Missing(element) == getTextContent(element) = <<>>

\* The pattern of an organisation number of 10 digits, /^\d{10}$/: the bug
\* another mutant of TwelveDigits has.
TenDigits(t) == Len(t) = 10 /\ \A k \in 1..10 : t[k] \in Digits

\* The pattern without its end anchor, /^\d{12}/: the bug a mutant of
\* TwelveDigits has.
TwelveDigitsUnanchored(t) == Len(t) >= 12 /\ \A k \in 1..12 : t[k] \in Digits

\* /^\d{12}$/
TwelveDigits(t) == Len(t) = 12 /\ \A k \in 1..12 : t[k] \in Digits

\* /\w+@\w+\.\w+/ on an address spelled as runs of word characters and
\* separators.
Separators == {"@", ".", " "}
EpostShape(t) ==
  \E k \in 1..(Len(t) - 4) :
    /\ t[k] \notin Separators /\ t[k + 1] = "@" /\ t[k + 2] \notin Separators
    /\ t[k + 3] = "." /\ t[k + 4] \notin Separators

If(cond, errs) == IF cond THEN errs ELSE <<>>

kontaktpersonErrors(kontaktperson) ==
  If(Missing(kontaktperson.Namn), <<Err("Namn is missing in TekniskKontaktperson", 0)>>)
  \o If(Missing(kontaktperson.Telefon), <<Err("Telefon is missing in TekniskKontaktperson", 0)>>)
  \o (IF Missing(kontaktperson.Epostadress)
      THEN <<Err("Epostadress is missing in TekniskKontaktperson", 0)>>
      ELSE If(~EpostShape(getTextContent(kontaktperson.Epostadress)),
              <<Err("Epostadress has invalid format", 0)>>))

avsandareErrors(avsandare) ==
  If(Missing(avsandare.Programnamn), <<Err("Programnamn is missing in Avsandare", 0)>>)
  \o (IF Missing(avsandare.Organisationsnummer)
      THEN <<Err("Organisationsnummer is missing in Avsandare", 0)>>
      ELSE If(~TwelveDigits(getTextContent(avsandare.Organisationsnummer)),
              <<Err("Organisationsnummer must be 12 digits", 0)>>))
  \o (IF avsandare.TekniskKontaktperson.kind # "object"
      THEN <<Err("TekniskKontaktperson is missing in Avsandare", 0)>>
      ELSE kontaktpersonErrors(avsandare.TekniskKontaktperson))
  \o If(Missing(avsandare.Skapad), <<Err("Skapad is missing in Avsandare", 0)>>)

blankettErrors(blankett, n) ==
  (IF blankett.Arendeinformation.kind # "object"
   THEN <<Err("Arendeinformation is missing in Blankett", n)>>
   ELSE LET info == blankett.Arendeinformation
        IN  (IF Missing(info.Arendeagare)
             THEN <<Err("Arendeagare is missing in Blankett", n)>>
             ELSE If(~TwelveDigits(getTextContent(info.Arendeagare)),
                     <<Err("Arendeagare must be 12 digits in Blankett", n)>>))
            \o If(Missing(info.Period), <<Err("Period is missing in Blankett", n)>>))
  \o If(blankett.Blankettinnehall.kind # "object",
        <<Err("Blankettinnehall is missing in Blankett", n)>>)

franvaroErrors(franvaro, n) ==
  If(Missing(franvaro.AgRegistreradId),
     <<Err("AgRegistreradId is missing in Franvarouppgift", n)>>)
  \o (IF Missing(franvaro.BetalningsmottagarId)
      THEN <<Err("BetalningsmottagarId is missing in Franvarouppgift", n)>>
      ELSE If(~TwelveDigits(getTextContent(franvaro.BetalningsmottagarId)),
              <<Err("BetalningsmottagarId must be 12 digits in Franvarouppgift", n)>>))
  \o If(Missing(franvaro.FranvaroDatum),
        <<Err("FranvaroDatum is missing in Franvarouppgift", n)>>)
  \o If(Missing(franvaro.FranvaroSpecifikationsnummer),
        <<Err("FranvaroSpecifikationsnummer is missing in Franvarouppgift", n)>>)
  \o (IF Missing(franvaro.FranvaroTyp)
      THEN <<Err("FranvaroTyp is missing in Franvarouppgift", n)>>
      ELSE If(getTextContent(franvaro.FranvaroTyp) \notin {TFP, FP},
              <<Err("FranvaroTyp must be either TILLFALLIG_FORALDRAPENNING or FORALDRAPENNING in Franvarouppgift", n)>>))
  \o If(Missing(franvaro.RedovisningsPeriod),
        <<Err("RedovisningsPeriod is missing in Franvarouppgift", n)>>)
  \o If(/\ getTextContent(franvaro.FranvaroTyp) = FP
        /\ Missing(franvaro.FranvaroProcentFP) /\ Missing(franvaro.FranvaroTimmarFP),
        <<Err("Either FranvaroProcentFP or FranvaroTimmarFP is required for FORALDRAPENNING in Franvarouppgift", n)>>)
  \o If(/\ getTextContent(franvaro.FranvaroTyp) = TFP
        /\ Missing(franvaro.FranvaroProcentTFP) /\ Missing(franvaro.FranvaroTimmarTFP),
        <<Err("Either FranvaroProcentTFP or FranvaroTimmarTFP is required for TILLFALLIG_FORALDRAPENNING in Franvarouppgift", n)>>)

\* A single element is skipped: the bug a mutant of AsArray has.
AsArrayOnly(stored) == IF IsArray(stored) THEN stored.items ELSE <<>>

\* Array.isArray(x) ? x : [x]
AsArray(stored) == IF IsArray(stored) THEN stored.items ELSE <<stored>>

\* blanketter.forEach / franvaroList.forEach: the errors of the elements, in order.
eachBlankettErrors(items) ==
  flatMap([k \in 1..Len(items) |-> blankettErrors(items[k], k)])

eachFranvaroErrors(items) ==
  flatMap([k \in 1..Len(items) |-> franvaroErrors(items[k], k)])

\* Validation that stops at the first part with an error: the bug a mutant
\* of rootErrors has.
rootErrorsFirst(rootElement) ==
  LET namespaces == If(rootElement.xmlns_xsi = <<>> \/ rootElement.xmlns = <<>>,
                       <<Err("Required XML namespaces are missing", 0)>>)
      avsandare == IF rootElement.Avsandare.kind # "object"
                   THEN <<Err("Required element Avsandare is missing", 0)>>
                   ELSE avsandareErrors(rootElement.Avsandare)
      blanketter == IF rootElement.Blankett.kind = "undefined"
                    THEN <<Err("No Blankett elements found", 0)>>
                    ELSE eachBlankettErrors(AsArray(rootElement.Blankett))
      franvaro == IF rootElement.Franvarouppgift.kind = "undefined"
                  THEN <<>>
                  ELSE eachFranvaroErrors(AsArray(rootElement.Franvarouppgift))
  IN  IF namespaces # <<>> THEN namespaces
      ELSE IF avsandare # <<>> THEN avsandare
      ELSE IF blanketter # <<>> THEN blanketter
      ELSE franvaro

rootErrors(rootElement) ==
  If(rootElement.xmlns_xsi = <<>> \/ rootElement.xmlns = <<>>,
     <<Err("Required XML namespaces are missing", 0)>>)
  \o (IF rootElement.Avsandare.kind # "object"
      THEN <<Err("Required element Avsandare is missing", 0)>>
      ELSE avsandareErrors(rootElement.Avsandare))
  \o (IF rootElement.Blankett.kind = "undefined"
      THEN <<Err("No Blankett elements found", 0)>>
      ELSE eachBlankettErrors(AsArray(rootElement.Blankett)))
  \o (IF rootElement.Franvarouppgift.kind = "undefined"
      THEN <<>>
      ELSE eachFranvaroErrors(AsArray(rootElement.Franvarouppgift)))

\* A parse failure that is reported and then followed by the check of the
\* root element: the bug a mutant of validateXML has.
validateXMLParseTwice(xmlString) ==
  IF xmlString.kind = "empty"
  THEN [valid |-> FALSE, errors |-> <<Err("No XML content provided", 0)>>]
  ELSE IF parseXML(xmlString).threw
  THEN [valid |-> FALSE,
        errors |-> <<Err("Failed to validate XML: Failed to parse XML file", 0),
                     Err("XML does not contain a Skatteverket root element", 0)>>]
  ELSE IF parseXML(xmlString).value.Skatteverket.kind # "object"
  THEN [valid |-> FALSE,
        errors |-> <<Err("XML does not contain a Skatteverket root element", 0)>>]
  ELSE LET errors == rootErrors(parseXML(xmlString).value.Skatteverket)
       IN  [valid |-> Len(errors) = 0, errors |-> errors]

\* A document with the root element is valid whatever errors were found: the
\* bug another mutant of validateXML has.
validateXMLValidWithRoot(xmlString) ==
  IF xmlString.kind = "empty"
  THEN [valid |-> FALSE, errors |-> <<Err("No XML content provided", 0)>>]
  ELSE IF parseXML(xmlString).threw
  THEN [valid |-> FALSE,
        errors |-> <<Err("Failed to validate XML: Failed to parse XML file", 0)>>]
  ELSE IF parseXML(xmlString).value.Skatteverket.kind # "object"
  THEN [valid |-> FALSE,
        errors |-> <<Err("XML does not contain a Skatteverket root element", 0)>>]
  ELSE [valid |-> TRUE, errors |-> rootErrors(parseXML(xmlString).value.Skatteverket)]

\* validateXML: the result for a file content.
validateXML(xmlString) ==
  IF xmlString.kind = "empty"
  THEN [valid |-> FALSE, errors |-> <<Err("No XML content provided", 0)>>]
  ELSE IF parseXML(xmlString).threw
  THEN [valid |-> FALSE,
        errors |-> <<Err("Failed to validate XML: Failed to parse XML file", 0)>>]
  ELSE IF parseXML(xmlString).value.Skatteverket.kind # "object"
  THEN [valid |-> FALSE,
        errors |-> <<Err("XML does not contain a Skatteverket root element", 0)>>]
  ELSE LET errors == rootErrors(parseXML(xmlString).value.Skatteverket)
       IN  [valid |-> Len(errors) = 0, errors |-> errors]

(***************************************************************************)
(* The session: the state of Home and the handlers that change it.          *)
(* The variable last records the handler that ran last: the case it was     *)
(* called for, whether the position handed to handleRemoveFranvaro was one  *)
(* of the list, and how the handler ended.                                  *)
(***************************************************************************)
\* The values of the form handed to handleAddFranvaro: a day of temporary
\* parental benefit of 8 hours (the defaults of the form) and a day of
\* parental benefit of 50 percent.
FranvaroInputs ==
  { FormData(R1, <<"2025-02-03">>, TFP, <<>>, <<>>, <<>>, <<"8.00">>) }

\* The positions handed to handleRemoveFranvaro (counted from 0): positions
\* of the list, the length of the list, larger and negative ones.
RemoveIndices == (0 - 2)..MaxList

Init ==
  /\ xmlContent = Null
  /\ parsedXml = Null
  /\ arendeInfoList = <<>>
  /\ validationErrors = <<>>
  /\ isValid = FALSE
  /\ last = [op |-> "none"]

\* An error thrown by the effect is caught by no error boundary: React
\* unmounts the page, and no handler runs any more.
Unmounted == last.op = "upload" /\ last.outcome = "TypeError"

\* handleFileUpload with an empty file content: the state is reset.
UploadEmpty ==
  /\ ~Unmounted
  /\ xmlContent' = Null
  /\ parsedXml' = Null
  /\ arendeInfoList' = <<>>
  /\ validationErrors' = <<>>
  /\ isValid' = FALSE
  /\ last' = [op |-> "upload", outcome |-> "reset"]

\* handleFileUpload with a text parseXML throws on: the text is stored and
\* the handler ends with the error; the parsed document, the cases and the
\* result of the validation are left as they are.
HandleFileUploadThrows(fileContent) ==
  /\ ~Unmounted
  /\ fileContent.kind # "empty"
  /\ parseXML(fileContent).threw
  /\ xmlContent' = fileContent
  /\ last' = [op |-> "upload", outcome |-> "parse error"]
  /\ UNCHANGED <<parsedXml, arendeInfoList, validationErrors, isValid>>

\* handleFileUpload with a well-formed text, and the effect on parsedXml:
\* extractArendeInformation, then validateUploadedXML.
HandleFileUpload(fileContent) ==
  /\ ~Unmounted
  /\ fileContent.kind # "empty"
  /\ ~parseXML(fileContent).threw
  /\ LET parsed == parseXML(fileContent).value
         extracted == extractArendeInformation(parsed)
         result == validateXML(fileContent)
     IN  /\ xmlContent' = fileContent
         /\ parsedXml' = parsed
         /\ IF extracted.threw
            THEN /\ last' = [op |-> "upload", outcome |-> "TypeError"]
                 /\ UNCHANGED <<arendeInfoList, validationErrors, isValid>>
            ELSE /\ arendeInfoList' = extracted.value
                 /\ isValid' = result.valid
                 /\ validationErrors' = result.errors
                 /\ last' = [op |-> "upload", outcome |-> "ok"]

\* The uploads of a session that edits one document: a text is uploaded
\* while no document is held, and the empty upload starts the session anew.
UploadMalformed(fileContent) ==
  /\ parsedXml = Null
  /\ HandleFileUploadThrows(fileContent)

UploadParsed(fileContent) ==
  /\ parsedXml = Null
  /\ HandleFileUpload(fileContent)

\* handleAddFranvaro(arendeIndex, franvaro)
HandleAddFranvaro(arendeIndex, franvaro) ==
  /\ ~Unmounted
  /\ arendeIndex \in 0..(Len(arendeInfoList) - 1)
  /\ Len(arendeInfoList[arendeIndex + 1].franvaroList) < MaxList
  /\ LET maxNr == maxSpecNr(arendeInfoList[arendeIndex + 1].franvaroList)
     IN  maxNr.nan \/ maxNr.n < MaxSpecNr
  /\ LET updatedFranvaroList == addedFranvaroList(arendeInfoList[arendeIndex + 1], franvaro)
     IN  /\ arendeInfoList' = handleFranvaroUpdate(arendeInfoList, arendeIndex, updatedFranvaroList)
         /\ last' = [op |-> "add", arendeIndex |-> arendeIndex]
  /\ UNCHANGED <<xmlContent, parsedXml, validationErrors, isValid>>

\* franvaroIndex (counted from 0) is a position of the list.
InRange(list, franvaroIndex) == franvaroIndex \in 0..(Len(list) - 1)

\* handleRemoveFranvaro(arendeIndex, franvaroIndex): the list is spliced and
\* handed to onFranvaroUpdate whatever the position is.
HandleRemoveFranvaro(arendeIndex, franvaroIndex) ==
  /\ ~Unmounted
  /\ arendeIndex \in 0..(Len(arendeInfoList) - 1)
  /\ LET existing == splicedList(arendeInfoList[arendeIndex + 1].franvaroList, franvaroIndex)
     IN  /\ arendeInfoList' = handleFranvaroUpdate(arendeInfoList, arendeIndex, existing)
         /\ last' = [op |-> "remove", arendeIndex |-> arendeIndex,
                     inRange |-> InRange(arendeInfoList[arendeIndex + 1].franvaroList, franvaroIndex),
                     outcome |-> "updated"]
  /\ UNCHANGED <<xmlContent, parsedXml, validationErrors, isValid>>

\* handleDownload of XMLDownloader: the button is rendered with a case list
\* that is not empty and enabled when isValid.
HandleDownload ==
  /\ ~Unmounted
  /\ isValid /\ Len(arendeInfoList) > 0
  /\ last' = [op |-> "download",
              threw |-> generateModifiedXML(parsedXml, arendeInfoList).threw]
  /\ UNCHANGED <<xmlContent, parsedXml, arendeInfoList, validationErrors, isValid>>

\* The positions of the case list (counted from 0).
ArendeIndices == 0..(Len(arendeInfoList) - 1)

Next ==
  \/ UploadEmpty
  \/ \E fileContent \in FileContents : UploadMalformed(fileContent)
  \/ \E fileContent \in FileContents : UploadParsed(fileContent)
  \/ \E arendeIndex \in ArendeIndices, franvaro \in FranvaroInputs :
       HandleAddFranvaro(arendeIndex, franvaro)
  \/ \E arendeIndex \in ArendeIndices, franvaroIndex \in RemoveIndices :
       HandleRemoveFranvaro(arendeIndex, franvaroIndex)
  \/ HandleDownload

Spec == Init /\ [][Next]_vars

\* The upload alone, of every tree of Trees: extractArendeInformation and
\* validateXML on documents of every shape.
NextExtract == \E tree \in Trees : UploadParsed(XmlOf(tree))

SpecExtract == Init /\ [][NextExtract]_vars

\* A session of uploads: every file content is uploaded in every state, also
\* when a document is held.
NextUpload ==
  \/ UploadEmpty
  \/ \E fileContent \in FileContents : HandleFileUploadThrows(fileContent)
  \/ \E fileContent \in FileContents : HandleFileUpload(fileContent)

SpecUpload == Init /\ [][NextUpload]_vars

(***************************************************************************)
(* validateXML on its own: the documents it is checked on.                  *)
(***************************************************************************)
\* Ids of 11 and of 13 digits, and one of 12 characters that are not all
\* digits.
Eleven == <<"1", "9", "8", "0", "0", "1", "0", "1", "0", "0", "0">>
Thirteen == <<"1", "9", "8", "0", "0", "1", "0", "1", "0", "0", "0", "1", "2">>
TwelveMixed == <<"1", "9", "8", "0", "0", "1", "0", "1", "-", "0", "0", "1">>

Skapad == <<"2025-03-01T10:00:00">>

\* The sender blocks validateXML is checked on: complete; missing; each
\* child missing or empty; the organisation number of another length or
\* with another character; each child of TekniskKontaktperson missing, and
\* an e-mail address without a domain.
ValidatorAvsandareKinds ==
  { AvsandareOK,
    Undefined,
    Avsandare(Undefined, Elem(OwnerA, ""), KontaktOK, Elem(Skapad, "")),
    Avsandare(Elem(<<>>, ""), Elem(OwnerA, ""), KontaktOK, Elem(Skapad, "")),
    Avsandare(Elem(<<"Lonesystemet">>, ""), Undefined, KontaktOK, Elem(Skapad, "")),
    Avsandare(Elem(<<"Lonesystemet">>, ""), Elem(Eleven, ""), KontaktOK, Elem(Skapad, "")),
    Avsandare(Elem(<<"Lonesystemet">>, ""), Elem(Thirteen, ""), KontaktOK, Elem(Skapad, "")),
    Avsandare(Elem(<<"Lonesystemet">>, ""), Elem(TwelveMixed, ""), KontaktOK, Elem(Skapad, "")),
    Avsandare(Elem(<<"Lonesystemet">>, ""), Elem(OwnerA, ""), Undefined, Elem(Skapad, "")),
    Avsandare(Elem(<<"Lonesystemet">>, ""), Elem(OwnerA, ""),
              TekniskKontaktperson(Undefined, Elem(<<"0701234567">>, ""), Elem(EpostOK, "")),
              Elem(Skapad, "")),
    Avsandare(Elem(<<"Lonesystemet">>, ""), Elem(OwnerA, ""),
              TekniskKontaktperson(Elem(<<"Anna">>, ""), Undefined, Elem(EpostOK, "")),
              Elem(Skapad, "")),
    Avsandare(Elem(<<"Lonesystemet">>, ""), Elem(OwnerA, ""),
              TekniskKontaktperson(Elem(<<"Anna">>, ""), Elem(<<"0701234567">>, ""), Undefined),
              Elem(Skapad, "")),
    Avsandare(Elem(<<"Lonesystemet">>, ""), Elem(OwnerA, ""),
              TekniskKontaktperson(Elem(<<"Anna">>, ""), Elem(<<"0701234567">>, ""),
                                   Elem(<<"anna", "@", "bokio">>, "")),
              Elem(Skapad, "")),
    Avsandare(Elem(<<"Lonesystemet">>, ""), Elem(OwnerA, ""), KontaktOK, Undefined),
    Avsandare(Undefined, Elem(Eleven, ""),
              TekniskKontaktperson(Undefined, Undefined, Undefined), Undefined) }

\* A form with the given case-owner id and period (elements or Undefined)
\* and a content block with an individual statement.
FormWith(agare, period) ==
  Blankett(Arendeinformation(agare, period), Blankettinnehall(IU(Elem(R1, "215"))))

\* The content block of the statement of the employer: it holds an element
\* HU and no IU.
BlankettinnehallHU == [kind |-> "object", IU |-> Undefined, HU |-> Elem(<<>>, "")]

\* The forms validateXML is checked on: complete; without Arendeinformation;
\* the case-owner id missing, empty, of another length or with another
\* character; the period missing or empty; the content block missing, and
\* empty (an element without children), and with the statement of the
\* employer; and a form that lacks everything.
ValidatorBlankettKinds ==
  { IUBlankett(P1, R1),
    Blankett(Undefined, Blankettinnehall(IU(Elem(R1, "215")))),
    FormWith(Undefined, Elem(P1, "")),
    FormWith(Elem(<<>>, ""), Elem(P1, "")),
    FormWith(Elem(Eleven, ""), Elem(P1, "")),
    FormWith(Elem(Thirteen, ""), Elem(P1, "")),
    FormWith(Elem(TwelveMixed, ""), Elem(P1, "")),
    FormWith(Elem(OwnerA, ""), Undefined),
    FormWith(Elem(OwnerA, ""), Elem(<<>>, "")),
    Blankett(Arendeinformation(Elem(OwnerA, ""), Elem(P1, "")), Undefined),
    Blankett(Arendeinformation(Elem(OwnerA, ""), Elem(P1, "")), Blankettinnehall(Undefined)),
    Blankett(Arendeinformation(Elem(OwnerA, ""), Elem(P1, "")), BlankettinnehallHU),
    Blankett(Arendeinformation(Undefined, Undefined), Undefined) }

\* An absence record of the document with the given children.
Record(ag, bm, datum, spec, typ, period, pFP, tFP, pTFP, tTFP) ==
  Franvaro(0, ag, bm, datum, spec, typ, period, pFP, tFP, pTFP, tTFP)

\* A complete record of each type, with hours and with a percentage.
RecordTFP ==
  Record(Elem(OwnerA, "201"), Elem(R1, "215"), Elem(<<"2025-02-03">>, "821"),
         Elem(<<"1">>, "822"), Elem(TFP, "823"), Elem(P1, "006"),
         Undefined, Undefined, Undefined, Elem(<<"8.00">>, "825"))

RecordFP ==
  Record(Elem(OwnerA, "201"), Elem(R1, "215"), Elem(<<"2025-02-04">>, "821"),
         Elem(<<"2">>, "822"), Elem(FP, "823"), Elem(P1, "006"),
         Elem(<<"50">>, "826"), Undefined, Undefined, Undefined)

\* The absence records validateXML is checked on: complete ones; each
\* required child missing, and some empty; the recipient id of another
\* length or with another character; a type outside the two; of each type
\* one without percentage and hours, one with empty ones, and one that has
\* the fields of the other type only; and a record that lacks everything.
ValidatorFranvaroKinds ==
  { RecordTFP,
    RecordFP,
    [RecordFP EXCEPT !.FranvaroProcentFP = Undefined, !.FranvaroTimmarFP = Elem(<<"4">>, "827")],
    [RecordTFP EXCEPT !.AgRegistreradId = Undefined],
    [RecordTFP EXCEPT !.AgRegistreradId = Elem(<<>>, "201")],
    [RecordTFP EXCEPT !.BetalningsmottagarId = Undefined],
    [RecordTFP EXCEPT !.BetalningsmottagarId = Elem(Eleven, "215")],
    [RecordTFP EXCEPT !.BetalningsmottagarId = Elem(Thirteen, "215")],
    [RecordTFP EXCEPT !.BetalningsmottagarId = Elem(TwelveMixed, "215")],
    [RecordTFP EXCEPT !.FranvaroDatum = Undefined],
    [RecordTFP EXCEPT !.FranvaroSpecifikationsnummer = Undefined],
    [RecordTFP EXCEPT !.FranvaroSpecifikationsnummer = Elem(<<>>, "822")],
    [RecordTFP EXCEPT !.FranvaroTyp = Undefined],
    [RecordTFP EXCEPT !.FranvaroTyp = Elem(<<"SJUKPENNING">>, "823")],
    [RecordTFP EXCEPT !.RedovisningsPeriod = Undefined],
    [RecordTFP EXCEPT !.FranvaroTimmarTFP = Undefined],
    [RecordTFP EXCEPT !.FranvaroTimmarTFP = Elem(<<>>, "825"),
                      !.FranvaroProcentTFP = Elem(<<>>, "824")],
    [RecordTFP EXCEPT !.FranvaroTimmarTFP = Undefined,
                      !.FranvaroProcentFP = Elem(<<"50">>, "826")],
    [RecordFP EXCEPT !.FranvaroProcentFP = Undefined],
    [RecordFP EXCEPT !.FranvaroProcentFP = Elem(<<>>, "826")],
    [RecordFP EXCEPT !.FranvaroProcentFP = Undefined,
                     !.FranvaroTimmarTFP = Elem(<<"8.00">>, "825")],
    Record(Undefined, Undefined, Undefined, Undefined, Undefined, Undefined,
           Undefined, Undefined, Undefined, Undefined) }

\* The namespace attributes of the root: both, one of them, none.
NamespaceKinds ==
  { <<NsAgd, NsXsi>>, <<<<>>, NsXsi>>, <<NsAgd, <<>>>>, <<<<>>, <<>>>> }

\* A declaration with the given namespace attributes.
TreeNs(ns, avsandare, bs, fs) ==
  [kind |-> "object",
   Skatteverket |-> Skatteverket(ns[1], ns[2], avsandare, AsStored(bs), AsStored(Numbered(fs)))]

\* The forms and records of the documents with several of each.
SeveralBlankettKinds ==
  { IUBlankett(P1, R1),
    FormWith(Elem(Eleven, ""), Elem(P1, "")),
    FormWith(Elem(OwnerA, ""), Undefined),
    Blankett(Undefined, Undefined) }

SeveralFranvaroKinds ==
  { RecordTFP,
    RecordFP,
    [RecordFP EXCEPT !.FranvaroProcentFP = Undefined],
    [RecordTFP EXCEPT !.BetalningsmottagarId = Elem(Thirteen, "215"),
                      !.FranvaroDatum = Undefined] }

\* The trees validateXML is checked on: every namespace kind and sender
\* block with at most one form and at most one record of every kind; and,
\* with and without the sender block, every list of forms and every list of
\* records of the kinds above; and a document with another root element.
ValidatorTrees ==
  { TreeNs(ns, a, bs, fs) :
       ns \in NamespaceKinds, a \in ValidatorAvsandareKinds,
       bs \in SeqsUpTo(ValidatorBlankettKinds, 1),
       fs \in SeqsUpTo(ValidatorFranvaroKinds, 1) }
  \cup { Tree(a, bs, fs) :
       a \in {AvsandareOK, Undefined},
       bs \in SeqsUpTo(SeveralBlankettKinds, MaxBlankett),
       fs \in SeqsUpTo(SeveralFranvaroKinds, MaxFranvaro) }
  \cup {OtherRoot}

\* The texts handed to validateXML.
ValidatorContents == {EmptyText, MalformedText} \cup {XmlOf(t) : t \in ValidatorTrees}

\* validateXML(xmlString): the result is kept as validateUploadedXML keeps
\* it, in isValid and validationErrors.
Validate(xmlString) ==
  /\ last.op = "none"
  /\ xmlContent' = xmlString
  /\ isValid' = validateXML(xmlString).valid
  /\ validationErrors' = validateXML(xmlString).errors
  /\ last' = [op |-> "validate"]
  /\ UNCHANGED <<parsedXml, arendeInfoList>>

NextValidate == \E xmlString \in ValidatorContents : Validate(xmlString)

SpecValidate == Init /\ [][NextValidate]_vars

(***************************************************************************)
(* components/FranvaroForm.tsx: the form that hands its values to           *)
(* handleAddFranvaro.  The numbers typed into the form are spelled          *)
(* character by character.                                                  *)
(***************************************************************************)
\* A JavaScript number with decimals: n is the value in hundredths, rounded
\* down, and rest says that a later decimal is not 0.
Float(n, rest) == [nan |-> FALSE, n |-> n, rest |-> rest]
NaNFloat == [nan |-> TRUE, n |-> 0, rest |-> FALSE]

\* parseFloat(text) for texts without sign and exponent: the digits before
\* and after the decimal point at the start of the text, NaN when there is
\* no digit.
parseFloat(t) ==
  LET i == LeadingDigits(t)
      frac == IF Len(t) > i /\ t[i + 1] = "." THEN SubSeq(t, i + 2, Len(t)) ELSE <<>>
      j == LeadingDigits(frac)
      d1 == IF j >= 1 THEN DigitVal(frac[1]) ELSE 0
      d2 == IF j >= 2 THEN DigitVal(frac[2]) ELSE 0
  IN  IF i = 0 /\ j = 0 THEN NaNFloat
      ELSE Float(100 * DecimalValue(t, i) + 10 * d1 + d2,
                 \E k \in 3..j : frac[k] # "0")

\* value && (parseFloat(value) < 0.01 || parseFloat(value) > max ||
\* isNaN(parseFloat(value))), with max in hundredths.
OutOfRange(value, max) ==
  /\ value # <<>>
  /\ LET x == parseFloat(value)
     IN  x.nan \/ x.n < 1 \/ x.n > max \/ (x.n = max /\ x.rest)

\* The either/or rule left out: the bug a mutant of NoneGiven has.
NoneGivenIgnored(procent, timmar) == FALSE

\* !procent && !timmar
NoneGiven(procent, timmar) == procent = <<>> /\ timmar = <<>>

\* validateForm: no error was found.
validateForm(formData) ==
  /\ formData.betalningsmottagarId # <<>>
  /\ TwelveDigits(formData.betalningsmottagarId)
  /\ formData.franvaroDatum # <<>>
  /\ formData.franvaroTyp # <<>>
  /\ formData.franvaroTyp = FP
       => /\ ~NoneGiven(formData.franvaroProcentFP, formData.franvaroTimmarFP)
          /\ ~OutOfRange(formData.franvaroProcentFP, 10000)
          /\ ~OutOfRange(formData.franvaroTimmarFP, 2400)
  /\ formData.franvaroTyp = TFP
       => /\ ~NoneGiven(formData.franvaroProcentTFP, formData.franvaroTimmarTFP)
          /\ ~OutOfRange(formData.franvaroProcentTFP, 10000)
          /\ ~OutOfRange(formData.franvaroTimmarTFP, 2400)

\* The values of the percentage and hours fields of the form: none, each
\* one alone, both of one type, those of both types, and values outside the
\* ranges.  A field keeps its value when the type is changed.
Day == <<"2025-02-03">>
Fifty == <<"5", "0">>
Four == <<"4">>
Eight == <<"8", ".", "0", "0">>

FieldValues ==
  { <<<<>>, <<>>, <<>>, <<>>>>,
    <<Fifty, <<>>, <<>>, <<>>>>, <<<<>>, Four, <<>>, <<>>>>,
    <<<<>>, <<>>, Fifty, <<>>>>, <<<<>>, <<>>, <<>>, Eight>>,
    <<Fifty, Four, <<>>, <<>>>>, <<<<>>, <<>>, Fifty, Eight>>,
    <<Fifty, <<>>, <<>>, Eight>>, <<Fifty, Four, Fifty, Eight>> }
  \cup { <<pFP, <<>>, <<>>, <<>>>> :
           pFP \in {<<"0">>, <<"1", "0", "0", ".", "0", "0", "1">>, <<"a">>} }
  \cup { <<<<>>, <<"2", "5">>, <<>>, Eight>> }

\* The forms with the given recipient id: of both types with every value of
\* the fields.
FormDatas(bm) ==
  { FormData(bm, Day, typ, v[1], v[2], v[3], v[4]) : typ \in {TFP, FP}, v \in FieldValues }

\* The forms that are submitted: the recipient id is that of the case, or,
\* for a case without one, typed (12 digits, 11 digits, nothing); and a form
\* without a date.
SubmitInputs ==
  FormDatas(R1) \cup FormDatas(R2)
  \cup { FormData(Eleven, Day, TFP, <<>>, <<>>, <<>>, Eight),
         FormData(<<>>, Day, TFP, <<>>, <<>>, <<>>, Eight),
         FormData(R1, <<>>, TFP, <<>>, <<>>, <<>>, Eight),
         FormData(R2, <<>>, TFP, <<>>, <<>>, <<>>, Eight) }

\* The values handleAddFranvaro is called with by a caller other than the
\* form: the recipient id is not that of a case.
DirectInputs == FormDatas(R2)

\* The documents that are edited with the form: one form of an employee
\* with one absence record, and one form of an employee whose recipient id
\* is not in the document.
FormTrees ==
  { Tree(AvsandareOK, <<IUBlankett(P1, R1)>>, <<DocFranvaro(R1, P1, Elem(<<"1">>, "822"))>>),
    Tree(AvsandareOK,
         <<Blankett(Arendeinformation(Elem(OwnerA, ""), Elem(P1, "")),
                    Blankettinnehall(IU(Undefined)))>>,
         <<>>) }

\* handleSubmit of the form of the case at arendeIndex: onSubmit(formData)
\* when validateForm() finds no error, nothing otherwise.  The field of the
\* recipient id is filled with the recipient id of the case and disabled
\* when the case has one.
HandleSubmit(arendeIndex, formData) ==
  /\ ~Unmounted
  /\ arendeIndex \in 0..(Len(arendeInfoList) - 1)
  /\ Len(arendeInfoList[arendeIndex + 1].franvaroList) < MaxFormList
  /\ LET maxNr == maxSpecNr(arendeInfoList[arendeIndex + 1].franvaroList)
     IN  maxNr.nan \/ maxNr.n < MaxSpecNr
  /\ arendeInfoList[arendeIndex + 1].betalningsmottagarId # <<>>
       => formData.betalningsmottagarId = arendeInfoList[arendeIndex + 1].betalningsmottagarId
  /\ IF validateForm(formData)
     THEN /\ arendeInfoList' =
               handleFranvaroUpdate(arendeInfoList, arendeIndex,
                  addedFranvaroList(arendeInfoList[arendeIndex + 1], formData))
          /\ last' = [op |-> "submit", arendeIndex |-> arendeIndex, accepted |-> TRUE]
     ELSE /\ UNCHANGED arendeInfoList
          /\ last' = [op |-> "submit", arendeIndex |-> arendeIndex, accepted |-> FALSE]
  /\ UNCHANGED <<xmlContent, parsedXml, validationErrors, isValid>>

\* A session with the form: a document is uploaded, the form is submitted,
\* handleAddFranvaro is called with values of any kind, records are removed
\* and the document is downloaded.
NextForm ==
  \/ \E tree \in FormTrees : UploadParsed(XmlOf(tree))
  \/ \E arendeIndex \in ArendeIndices, formData \in SubmitInputs :
       HandleSubmit(arendeIndex, formData)
  \/ \E arendeIndex \in ArendeIndices, franvaro \in DirectInputs :
       /\ Len(arendeInfoList[arendeIndex + 1].franvaroList) < MaxFormList
       /\ HandleAddFranvaro(arendeIndex, franvaro)
  \/ \E arendeIndex \in ArendeIndices, franvaroIndex \in RemoveIndices :
       HandleRemoveFranvaro(arendeIndex, franvaroIndex)
  \/ HandleDownload

SpecForm == Init /\ [][NextForm]_vars

(***************************************************************************)
(* utils/xmlUtils.ts: parseXML and generateXML on the text of an element.   *)
(* The text is the sequence of the nodes between the tags of the element,  *)
(* in the order they are written; the compact object xml2js makes of it is  *)
(* the sequence of its properties in the order they were created.           *)
(***************************************************************************)
\* A child element with an attribute faltkod and a text, and a comment.
Child(name, faltkod, text) ==
  [node |-> "element", name |-> name, faltkod |-> faltkod, text |-> text]
CommentNode == [node |-> "comment", name |-> "", faltkod |-> "", text |-> <<"note">>]

\* The position of the property with this name, 0 when there is none.
KeyIndex(object, name) ==
  IF \E k \in 1..Len(object) : object[k].key = name
  THEN CHOOSE k \in 1..Len(object) : object[k].key = name
  ELSE 0

\* xml2js(xmlString, {compact: true, ignoreComment: true}): a comment is
\* dropped; the first element of a name becomes the property of that name,
\* a later one makes the property an array and is put at its end.
RECURSIVE xml2js(_)
xml2js(nodes) ==
  IF nodes = <<>> THEN <<>>
  ELSE LET object == xml2js(SubSeq(nodes, 1, Len(nodes) - 1))
           node == nodes[Len(nodes)]
           element == Elem(node.text, node.faltkod)
           k == KeyIndex(object, node.name)
       IN  IF node.node = "comment" THEN object
           ELSE IF k = 0 THEN Append(object, [key |-> node.name, value |-> element])
           ELSE [object EXCEPT ![k].value =
                   IF IsArray(@) THEN Arr(Append(@.items, element)) ELSE Arr(<<@, element>>)]

\* js2xml(jsObject, {compact: true}): the properties in their order, every
\* element of an array as an element of the name of the property.
js2xml(object) ==
  flatMap([k \in 1..Len(object) |->
             LET items == IF IsArray(object[k].value)
                          THEN object[k].value.items ELSE <<object[k].value>>
             IN  [j \in 1..Len(items) |->
                    Child(object[k].key, items[j].faltkod, items[j]._text)]])

\* generateXML(jsObject)
generateXML(jsObject) == js2xml(jsObject)

\* The texts: every sequence of at most MaxChildren nodes, each a form or an
\* absence record with one of two texts, or a comment.
NodeKinds ==
  { Child(name, "", text) : name \in {"Blankett", "Franvarouppgift"},
                            text \in {<<"a">>, <<"b">>} }
  \cup {CommentNode}

XmlTexts == SeqsUpTo(NodeKinds, MaxChildren)

\* parseXML(xmlString), then generateXML of the result.
RoundTrip(xmlString) ==
  /\ last.op = "none"
  /\ xmlContent' = xmlString
  /\ parsedXml' = xml2js(xmlString)
  /\ last' = [op |-> "roundtrip", generated |-> generateXML(xml2js(xmlString))]
  /\ UNCHANGED <<arendeInfoList, validationErrors, isValid>>

NextRoundTrip == \E xmlString \in XmlTexts : RoundTrip(xmlString)

SpecRoundTrip == Init /\ [][NextRoundTrip]_vars


(***************************************************************************)
(* utils/xmlUtils.ts: extractFromXML.  A path is the sequence of its        *)
(* characters, a name counting as one character; an attribute of an        *)
(* element is a property of the element, as in the trees above.            *)
(***************************************************************************)
\* A string and a number that a property of the tree, of an array or of a
\* string holds.
String(value, empty) == [kind |-> "string", value |-> value, empty |-> empty]
Number(zero) == [kind |-> "number", zero |-> zero]

\* !value
Falsy(value) ==
  \/ value.kind \in {"undefined", "null"}
  \/ (value.kind = "string" /\ value.empty)
  \/ (value.kind = "number" /\ value.zero)

\* The fields of a record of the model that are not properties of the object.
MetaFields == {"kind", "ref", "items"}
TextFields == {"_text", "xmlns", "xmlns_xsi"}

\* The position an index names, -1 for another name.
ArrayIndex(name) ==
  IF name = "0" THEN 0 ELSE IF name = "1" THEN 1 ELSE IF name = "2" THEN 2 ELSE 0 - 1

\* current[part]: a TypeError on undefined and null; a property of an object;
\* an element or the length of an array; a character or the length of a
\* string; undefined for everything else.  A part that is not one name ('',
\* or names without a dot between them) names no property.
Property(current, part) ==
  LET name == IF Len(part) = 1 THEN part[1] ELSE ""
  IN  IF current.kind \in {"undefined", "null"} THEN [threw |-> TRUE, value |-> Undefined]
      ELSE [threw |-> FALSE,
            value |->
              IF current.kind = "object"
              THEN IF name \in (DOMAIN current) \ MetaFields
                   THEN IF name \in TextFields THEN String(current[name], current[name] = <<>>)
                        ELSE IF name = "faltkod" THEN String(current[name], current[name] = "")
                        ELSE current[name]
                   ELSE Undefined
              ELSE IF current.kind = "array"
              THEN IF name = "length" THEN Number(Len(current.items) = 0)
                   ELSE IF ArrayIndex(name) \in 0..(Len(current.items) - 1)
                        THEN current.items[ArrayIndex(name) + 1]
                        ELSE Undefined
              ELSE IF current.kind = "string"
              THEN IF name = "length" THEN Number(current.empty)
                   ELSE IF ArrayIndex(name) = 0 /\ ~current.empty
                        THEN String(<<"character">>, FALSE)
                        ELSE Undefined
              ELSE Undefined]

\* path.split(".")
RECURSIVE split(_)
split(path) ==
  IF \A k \in 1..Len(path) : path[k] # "." THEN <<path>>
  ELSE LET dot == CHOOSE k \in 1..Len(path) :
                    path[k] = "." /\ \A j \in 1..(k - 1) : path[j] # "."
       IN  <<SubSeq(path, 1, dot - 1)>> \o split(SubSeq(path, dot + 1, Len(path)))

\* The loop of extractFromXML over the parts that are left.
RECURSIVE descend(_, _)
descend(current, parts) ==
  IF parts = <<>> THEN [threw |-> FALSE, value |-> current]
  ELSE IF Property(current, Head(parts)).threw THEN [threw |-> TRUE, value |-> Undefined]
  ELSE IF Falsy(Property(current, Head(parts)).value) THEN [threw |-> FALSE, value |-> Undefined]
  ELSE descend(Property(current, Head(parts)).value, Tail(parts))

\* extractFromXML(xmlObject, path)
extractFromXML(xmlObject, path) ==
  IF Falsy(xmlObject) THEN [threw |-> FALSE, value |-> Undefined]
  ELSE descend(xmlObject, split(path))

\* The path with the given parts.
RECURSIVE join(_)
join(parts) ==
  IF Len(parts) = 1 THEN parts[1] ELSE parts[1] \o <<".">> \o join(Tail(parts))

\* The parts of the paths: names of the tree, positions, length and ''.
PathParts ==
  { <<>>, <<"Skatteverket">>, <<"Blankett">>, <<"Franvarouppgift">>,
    <<"Arendeinformation">>, <<"Period">>, <<"_text">>, <<"0">>, <<"length">> }

\* The paths: of at most MaxPath parts, and one with two names without a dot.
Paths ==
  { join(parts) : parts \in SeqsUpTo(PathParts, MaxPath) \ {<<>>} }
  \cup { <<"Skatteverket", "Blankett">> }

\* The objects extractFromXML is called with: null, a declaration with two
\* forms and one absence record, one with one form and two absence records,
\* and a document with another root element.
ExtractObjects ==
  { Null,
    Tree(AvsandareOK, <<IUBlankett(P1, R1), IUBlankett(P2, R1)>>,
         <<DocFranvaro(R1, P1, Elem(<<"1">>, "822"))>>),
    Tree(AvsandareOK, <<IUBlankett(P1, R1)>>,
         <<DocFranvaro(R1, P1, Elem(<<"1">>, "822")), DocFranvaro(R1, P1, Elem(<<"2">>, "822"))>>),
    OtherRoot }

\* A call of extractFromXML.
Extract(xmlObject, path) ==
  /\ last.op = "none"
  /\ parsedXml' = xmlObject
  /\ last' = [op |-> "extract", path |-> path,
              threw |-> extractFromXML(xmlObject, path).threw,
              value |-> extractFromXML(xmlObject, path).value]
  /\ UNCHANGED <<xmlContent, arendeInfoList, validationErrors, isValid>>

NextPath == \E xmlObject \in ExtractObjects, path \in Paths : Extract(xmlObject, path)

SpecPath == Init /\ [][NextPath]_vars


\* The documents of a session in which records are added by the form only:
\* those of FormTrees, a declaration whose IU holds a recipient id of 11
\* digits, one whose absence record has a specification number that is not
\* a number, and one that is not valid (its record has no date).
SubmitTrees ==
  FormTrees
  \cup { Tree(AvsandareOK, <<IUBlankett(P1, Eleven)>>, <<>>),
         Tree(AvsandareOK, <<IUBlankett(P1, R1)>>,
              <<DocFranvaro(R1, P1, Elem(<<"x">>, "822"))>>),
         Tree(AvsandareOK, <<IUBlankett(P1, R1)>>,
              <<[DocFranvaro(R1, P1, Elem(<<"1">>, "822")) EXCEPT !.FranvaroDatum = Undefined]>>) }

\* A session in which absence records are added by the form only.
NextSubmit ==
  \/ \E tree \in SubmitTrees : UploadParsed(XmlOf(tree))
  \/ \E arendeIndex \in ArendeIndices, formData \in SubmitInputs :
       HandleSubmit(arendeIndex, formData)
  \/ \E arendeIndex \in ArendeIndices, franvaroIndex \in RemoveIndices :
       HandleRemoveFranvaro(arendeIndex, franvaroIndex)
  \/ HandleDownload

SpecSubmit == Init /\ [][NextSubmit]_vars


(***************************************************************************)
(* The date field of FranvaroForm.  A date is the number of its day in the  *)
(* month of the period; period is "YYYYMM" for a text of six digits and ""  *)
(* for a missing one.  zone is 1 where local midnight is a time of the day  *)
(* before in UTC (east of Greenwich) and 0 elsewhere.  A prop that is       *)
(* undefined is the empty tuple, a date d the tuple <<d>>.                  *)
(***************************************************************************)
\* new Date(year, month, 1) and new Date(year, month + 1, 0) are local
\* midnights and toISOString writes the UTC date; without a period of six
\* characters both days are today's.
getPeriodDates(period, today, zone) ==
  IF period = "" THEN [firstDay |-> today, lastDay |-> today]
  ELSE [firstDay |-> 1 - zone, lastDay |-> MonthDays - zone]

\* The effect on [period, lastAddedDate, periodStart]: the value it sets
\* franvaroDatum to.
newDate(period, lastAddedDate, periodStart) ==
  IF period = "YYYYMM" THEN 1
  ELSE IF lastAddedDate # <<>> THEN lastAddedDate[1] + 1
  ELSE periodStart

\* The form of a case when the case is expanded first: useState, then the
\* effect, which sets a date whenever periodStart is one and so replaces
\* the date of getInitialDate.
InitDate ==
  /\ xmlContent = Null
  /\ parsedXml = Null
  /\ arendeInfoList = <<>>
  /\ validationErrors = <<>>
  /\ isValid = FALSE
  /\ \E period \in {"YYYYMM", ""}, today \in 1..MonthDays, zone \in {0, 1} :
       last = [op |-> "mount", period |-> period, today |-> today, zone |-> zone,
               lastAddedDate |-> <<>>, accepted |-> FALSE, submitted |-> <<>>,
               franvaroDatum |->
                 newDate(period, <<>>, getPeriodDates(period, today, zone).firstDay)]

\* toggleExpand twice: the form is unmounted and mounted again, the last
\* added dates are state of ArendeList and stay.
ToggleExpand ==
  /\ last' = [last EXCEPT
                !.op = "mount", !.accepted = FALSE, !.submitted = <<>>,
                !.franvaroDatum =
                  newDate(last.period, last.lastAddedDate,
                          getPeriodDates(last.period, last.today, last.zone).firstDay)]
  /\ UNCHANGED <<xmlContent, parsedXml, arendeInfoList, validationErrors, isValid>>

\* handleChange of the date input.
HandleChangeDate(value) ==
  /\ last' = [last EXCEPT !.op = "change", !.accepted = FALSE, !.submitted = <<>>,
                          !.franvaroDatum = value]
  /\ UNCHANGED <<xmlContent, parsedXml, arendeInfoList, validationErrors, isValid>>

\* handleSubmit of the form with the other fields as mounted (they pass
\* validateForm), handleAddFranvaro's setLastAddedDates, and the effect when
\* the prop lastAddedDate is another one than before.
HandleSubmitDate ==
  LET dates == getPeriodDates(last.period, last.today, last.zone)
      datum == last.franvaroDatum
      accepted == ~(datum < dates.firstDay \/ datum > dates.lastDay)
      nextDayStr == IF datum + 1 > dates.lastDay THEN dates.lastDay ELSE datum + 1
  IN /\ last' =
          IF ~accepted
            THEN [last EXCEPT !.op = "submit", !.accepted = FALSE, !.submitted = <<>>]
            ELSE [last EXCEPT
                    !.op = "submit", !.accepted = TRUE, !.submitted = <<datum>>,
                    !.lastAddedDate = <<datum>>,
                    !.franvaroDatum =
                      IF <<datum>> # last.lastAddedDate
                        THEN newDate(last.period, <<datum>>, dates.firstDay)
                        ELSE nextDayStr]
     /\ UNCHANGED <<xmlContent, parsedXml, arendeInfoList, validationErrors, isValid>>

NextDate ==
  \/ ToggleExpand
  \/ \E value \in 0..(MonthDays + 1) : HandleChangeDate(value)
  \/ HandleSubmitDate

SpecDate == InitDate /\ [][NextDate]_vars


(***************************************************************************)
(* The claims.  The definitions below read the state the way the            *)
(* specification of the program words it.                                   *)
(***************************************************************************)
\* The franvaroList of the case at position arendeIndex (counted from 0).
ListOf(arendeIndex) == arendeInfoList[arendeIndex + 1].franvaroList

\* Record r carries the specification number n, written as a decimal numeral.
HasNumber(r, n) ==
  /\ r.FranvaroSpecifikationsnummer.kind = "object"
  /\ r.FranvaroSpecifikationsnummer._text = NatToString(n)

SpecNumbers == 1..(MaxSpecNr + 1)

\* Every record of the list carries a specification number (a positive integer).
AllNumbered(list) ==
  \A k \in 1..Len(list) : \E n \in SpecNumbers : HasNumber(list[k], n)

\* n is the largest specification number of the list, 0 for the empty list.
IsLargest(list, n) ==
  /\ n = 0 \/ \E k \in 1..Len(list) : HasNumber(list[k], n)
  /\ \A k \in 1..Len(list) : \A m \in SpecNumbers : HasNumber(list[k], m) => m <= n

InitialList(arendeIndex) ==
  extractArendeInformation(parsedXml).value[arendeIndex + 1].franvaroList

\* The records of the list carry pairwise distinct specification numbers.
DistinctNumbers(list) ==
  /\ AllNumbered(list)
  /\ \A k, l \in 1..Len(list) :
       k < l => ~ \E n \in SpecNumbers : HasNumber(list[k], n) /\ HasNumber(list[l], n)

Occurrences(stored) ==
  IF stored.kind = "undefined" THEN <<>>
  ELSE IF stored.kind = "array" THEN stored.items
  ELSE <<stored>>

\* The top-level absence records of a tree.
TopLevelFranvaro(tree) ==
  IF tree.Skatteverket.kind = "object"
  THEN Occurrences(tree.Skatteverket.Franvarouppgift) ELSE <<>>

\* No two records with the same recipient id and reporting period carry the
\* same specification number.
UniquePerKey(records) ==
  \A k, l \in 1..Len(records) :
    (/\ k < l
     /\ getTextContent(records[k].BetalningsmottagarId)
          = getTextContent(records[l].BetalningsmottagarId)
     /\ getTextContent(records[k].RedovisningsPeriod)
          = getTextContent(records[l].RedovisningsPeriod))
    => getTextContent(records[k].FranvaroSpecifikationsnummer)
         # getTextContent(records[l].FranvaroSpecifikationsnummer)

\* C3: when no two top-level absence records of the uploaded document with
\* the same recipient id and reporting period carry the same specification
\* number, the same holds of the document generateModifiedXML builds, after
\* every sequence of additions and removals (the empty one too).
C3_UniquePerKeyInBuiltDocument ==
  (/\ parsedXml # Null
   /\ ~modifiedXml(parsedXml, arendeInfoList).threw
   /\ UniquePerKey(TopLevelFranvaro(parsedXml)))
  => UniquePerKey(TopLevelFranvaro(modifiedXml(parsedXml, arendeInfoList).value))

\* C4: handleRemoveFranvaro with a position that is none of the list ends
\* with an out-of-range failure, not with an updated list.
C4_OutOfRangeFails ==
  (last.op = "remove" /\ ~last.inRange) => last.outcome = "IndexOutOfRange"

\* The list without the element at position p (counted from 1).
WithoutPosition(list, p) == SubSeq(list, 1, p - 1) \o SubSeq(list, p + 1, Len(list))

\* C5: handleRemoveFranvaro with a position of the list gives the case the
\* list without the record at that position: one record less, the others in
\* their order and as they were (no specification number is changed).
C5_RemoveAtPosition ==
  [][\A arendeIndex \in ArendeIndices, franvaroIndex \in RemoveIndices :
       (/\ HandleRemoveFranvaro(arendeIndex, franvaroIndex)
        /\ InRange(ListOf(arendeIndex), franvaroIndex))
       => /\ Len(ListOf(arendeIndex)') = Len(ListOf(arendeIndex)) - 1
          /\ ListOf(arendeIndex)' = WithoutPosition(ListOf(arendeIndex), franvaroIndex + 1)]_vars

\* A record was removed last at a position of the list, and the case is left
\* with the records numbered 1 and 3: the record between them was removed
\* and the last one kept its number.
C5_Witness ==
  /\ last.op = "remove" /\ last.inRange
  /\ Len(ListOf(last.arendeIndex)) = 2
  /\ HasNumber(ListOf(last.arendeIndex)[1], 1)
  /\ HasNumber(ListOf(last.arendeIndex)[2], 3)

\* The lists of the first n cases, one after the other.
RECURSIVE ListsUpTo(_)
ListsUpTo(n) == IF n = 0 THEN <<>> ELSE ListsUpTo(n - 1) \o ListOf(n - 1)

\* The top-level absence-record collection of a tree, as it is stored.
StoredFranvaro(tree) == tree.Skatteverket.Franvarouppgift

C7_OnlyCollectionAndProgramName ==
  (parsedXml # Null /\ ~modifiedXml(parsedXml, arendeInfoList).threw)
  => LET old == parsedXml.Skatteverket
         new == modifiedXml(parsedXml, arendeInfoList).value.Skatteverket
     IN  /\ new.kind = "object"
         /\ new.xmlns = old.xmlns /\ new.xmlns_xsi = old.xmlns_xsi
         /\ new.Blankett = old.Blankett
         /\ new.Avsandare.kind = "object"
         /\ new.Avsandare.Organisationsnummer = old.Avsandare.Organisationsnummer
         /\ new.Avsandare.TekniskKontaktperson = old.Avsandare.TekniskKontaktperson
         /\ new.Avsandare.Skapad = old.Avsandare.Skapad
         /\ new.Avsandare.Programnamn.kind = "object"
         /\ new.Avsandare.Programnamn._text = ProgramLiteral
         /\ old.Avsandare.Programnamn.kind = "object"
              => new.Avsandare.Programnamn.faltkod = old.Avsandare.Programnamn.faltkod

\* The document was downloaded after the records of the cases were changed:
\* the tree that is built has another absence-record collection and another
\* program name than the uploaded tree, which holds forms.
C7_Witness ==
  /\ last.op = "download" /\ ~last.threw
  /\ parsedXml.Skatteverket.Blankett.kind # "undefined"
  /\ StoredFranvaro(modifiedXml(parsedXml, arendeInfoList).value) # StoredFranvaro(parsedXml)
  /\ getTextContent(parsedXml.Skatteverket.Avsandare.Programnamn) # ProgramLiteral

\* The declaration forms of a tree, in document order.
Forms(tree) ==
  IF tree.Skatteverket.kind = "object"
  THEN Occurrences(tree.Skatteverket.Blankett) ELSE <<>>

\* The content block of the form contains an income-record sub-structure.
HasIncomeRecord(form) ==
  /\ form.Blankettinnehall.kind = "object"
  /\ form.Blankettinnehall.IU.kind = "object"

\* C8: whatever tree was parsed, the case list holds one case for every
\* declaration form whose content block contains an income record, in
\* document order, and none for a form without.
C8_OneCasePerIncomeForm ==
  parsedXml # Null
  => LET incomeForms == SelectSeq(Forms(parsedXml), HasIncomeRecord)
     IN  /\ Len(arendeInfoList) = Len(incomeForms)
         /\ \A k \in 1..Len(incomeForms) :
              arendeInfoList[k].blankettInnehall = incomeForms[k].Blankettinnehall

\* The top-level absence records with the given recipient id and period, in
\* document order.
RecordsOfKey(tree, id, period) ==
  LET OfKey(r) == /\ getTextContent(r.BetalningsmottagarId) = id
                  /\ getTextContent(r.RedovisningsPeriod) = period
  IN  SelectSeq(TopLevelFranvaro(tree), OfKey)

\* C9: after an upload, the list of every case holds the top-level absence
\* records whose recipient id is the recipient id of the case and whose
\* reporting period is the period of the case, in document order, and no
\* other record.
C9_MatchedByIdAndPeriod ==
  (last.op = "upload" /\ last.outcome = "ok")
  => \A k \in 1..Len(arendeInfoList) :
       arendeInfoList[k].franvaroList
         = RecordsOfKey(parsedXml, arendeInfoList[k].betalningsmottagarId,
                        arendeInfoList[k].period)

\* A document was uploaded in which a case was given a record, while another
\* top-level record with the recipient id of that case and another period
\* was not given to it.
C9_Witness ==
  /\ last.op = "upload" /\ last.outcome = "ok"
  /\ \E k \in 1..Len(arendeInfoList) :
       /\ Len(arendeInfoList[k].franvaroList) = 1
       /\ \E l \in 1..Len(TopLevelFranvaro(parsedXml)) :
            LET r == TopLevelFranvaro(parsedXml)[l]
            IN  /\ getTextContent(r.BetalningsmottagarId) = arendeInfoList[k].betalningsmottagarId
                /\ getTextContent(r.RedovisningsPeriod) # arendeInfoList[k].period
                /\ \A m \in 1..Len(arendeInfoList[k].franvaroList) :
                     arendeInfoList[k].franvaroList[m].ref # r.ref

\* C10: no absence record of the uploaded document is in the lists of two
\* cases, after the upload and after every sequence of additions and
\* removals.
C10_NoSharedRecord ==
  \A i, j \in ArendeIndices :
    i # j => \A k \in 1..Len(ListOf(i)), l \in 1..Len(ListOf(j)) :
               ListOf(i)[k].ref > 0 => ListOf(i)[k].ref # ListOf(j)[l].ref


\* validateXML has returned its result for the text xmlContent.
Validated == last.op = "validate"

\* The validated text is a tree with the root element Skatteverket.
HasRoot ==
  /\ Validated
  /\ xmlContent.kind = "xml"
  /\ xmlContent.tree.Skatteverket.kind = "object"

\* The error with this text and number is in the result.
Reported(msg, index) ==
  \E k \in 1..Len(validationErrors) :
    validationErrors[k].msg = msg /\ validationErrors[k].index = index

\* The forms and the absence records of the validated tree.
ValidatedForms == Occurrences(xmlContent.tree.Skatteverket.Blankett)
ValidatedRecords == Occurrences(xmlContent.tree.Skatteverket.Franvarouppgift)

\* C11: for the empty text, for a text that does not parse and for a tree
\* without the root element Skatteverket, validateXML returns a result (it
\* does not throw) that is not valid and holds exactly one error.
C11_SingleErrorWithoutRoot ==
  (Validated /\ ~HasRoot) => (~isValid /\ Len(validationErrors) = 1)

\* A text that does not parse was validated.
C11_Witness ==
  /\ Validated
  /\ xmlContent.kind = "malformed"
  /\ Len(validationErrors) = 1

\* A root element is complete apart from one of its parts, which is taken
\* from the root element given.
CompleteRoot == Skatteverket(NsAgd, NsXsi, AvsandareOK, IUBlankett(P1, R1), Undefined)

OnlyNamespaces(root) ==
  [CompleteRoot EXCEPT !.xmlns = root.xmlns, !.xmlns_xsi = root.xmlns_xsi]

OnlySender(root) ==
  [CompleteRoot EXCEPT !.Avsandare =
     IF root.Avsandare.kind = "object"
     THEN [root.Avsandare EXCEPT !.TekniskKontaktperson = KontaktOK]
     ELSE root.Avsandare]

OnlyContact(root) ==
  [CompleteRoot EXCEPT !.Avsandare =
     IF root.Avsandare.kind = "object"
     THEN [AvsandareOK EXCEPT !.TekniskKontaktperson = root.Avsandare.TekniskKontaktperson]
     ELSE AvsandareOK]

OnlyForm(root, k) ==
  [CompleteRoot EXCEPT !.Blankett = Occurrences(root.Blankett)[k]]

OnlyRecord(root, k) ==
  [CompleteRoot EXCEPT !.Franvarouppgift = Occurrences(root.Franvarouppgift)[k]]

\* The errors validateXML returns for the document with this root element.
ErrorsOfRoot(root) == validateXML(XmlOf([kind |-> "object", Skatteverket |-> root])).errors

\* The sum of f[1], ..., f[n].
RECURSIVE Sum(_, _)
Sum(f, n) == IF n = 0 THEN 0 ELSE f[n] + Sum(f, n - 1)

\* C12: when the root element is there, every error that a part of the
\* document (the namespace attributes, the sender block, the technical
\* contact, each form, each absence record) gets in a document that is
\* complete otherwise is reported, whatever the other parts violate, and
\* there is one error for every violated rule.
C12_ErrorsAccumulate ==
  HasRoot =>
    LET root == xmlContent.tree.Skatteverket
        Of(part) == ErrorsOfRoot(part)
        AllReported(errs, index) ==
          \A k \in 1..Len(errs) :
            Reported(errs[k].msg, IF errs[k].index = 0 THEN 0 ELSE index)
        noForm == IF root.Blankett.kind = "undefined" THEN 1 ELSE 0
    IN  /\ AllReported(Of(OnlyNamespaces(root)), 0)
        /\ AllReported(Of(OnlySender(root)), 0)
        /\ AllReported(Of(OnlyContact(root)), 0)
        /\ root.Blankett.kind = "undefined" => Reported("No Blankett elements found", 0)
        /\ \A k \in 1..Len(ValidatedForms) : AllReported(Of(OnlyForm(root, k)), k)
        /\ \A k \in 1..Len(ValidatedRecords) : AllReported(Of(OnlyRecord(root, k)), k)
        /\ Len(validationErrors)
             = Len(Of(OnlyNamespaces(root))) + Len(Of(OnlySender(root)))
               + Len(Of(OnlyContact(root))) + noForm
               + Sum([k \in 1..Len(ValidatedForms) |-> Len(Of(OnlyForm(root, k)))],
                     Len(ValidatedForms))
               + Sum([k \in 1..Len(ValidatedRecords) |-> Len(Of(OnlyRecord(root, k)))],
                     Len(ValidatedRecords))

\* A document was validated that violates a rule of every part at once.
C12_Witness ==
  /\ HasRoot
  /\ Reported("Required XML namespaces are missing", 0)
  /\ Reported("Programnamn is missing in Avsandare", 0)
  /\ Reported("Namn is missing in TekniskKontaktperson", 0)
  /\ Reported("Blankettinnehall is missing in Blankett", 1)
  /\ Reported("FranvaroDatum is missing in Franvarouppgift", 1)

\* The text consists of 12 decimal digits.
DecimalDigits == {"0", "1", "2", "3", "4", "5", "6", "7", "8", "9"}
IsTwelveDecimalDigits(t) == Len(t) = 12 /\ \A k \in 1..Len(t) : t[k] \in DecimalDigits

\* The element is missing or has no text.
MissingText(e) == e.kind = "undefined" \/ e._text = <<>>

\* C13: an organisation number of the sender, a case-owner id of a form and
\* a recipient id of an absence record that is not empty gets no error when
\* it consists of 12 decimal digits, and the error "must be 12 digits" when
\* it does not (11 digits, 13 digits, or another character).
C13_TwelveDigitIds ==
  HasRoot =>
    LET root == xmlContent.tree.Skatteverket
    IN  /\ (root.Avsandare.kind = "object" /\ ~MissingText(root.Avsandare.Organisationsnummer))
            => /\ Reported("Organisationsnummer must be 12 digits", 0)
                    <=> ~IsTwelveDecimalDigits(root.Avsandare.Organisationsnummer._text)
               /\ ~Reported("Organisationsnummer is missing in Avsandare", 0)
        /\ \A k \in 1..Len(ValidatedForms) :
             LET info == ValidatedForms[k].Arendeinformation
             IN  (info.kind = "object" /\ ~MissingText(info.Arendeagare))
                 => /\ Reported("Arendeagare must be 12 digits in Blankett", k)
                         <=> ~IsTwelveDecimalDigits(info.Arendeagare._text)
                    /\ ~Reported("Arendeagare is missing in Blankett", k)
        /\ \A k \in 1..Len(ValidatedRecords) :
             LET id == ValidatedRecords[k].BetalningsmottagarId
             IN  ~MissingText(id)
                 => /\ Reported("BetalningsmottagarId must be 12 digits in Franvarouppgift", k)
                         <=> ~IsTwelveDecimalDigits(id._text)
                    /\ ~Reported("BetalningsmottagarId is missing in Franvarouppgift", k)

\* A document was validated whose organisation number has 11 digits, whose
\* first form has a case-owner id of 13 digits and whose first absence
\* record has a recipient id of 11 digits: each of them got its error.
C13_Witness ==
  /\ HasRoot
  /\ xmlContent.tree.Skatteverket.Avsandare.kind = "object"
  /\ getTextContent(xmlContent.tree.Skatteverket.Avsandare.Organisationsnummer) = Eleven
  /\ Len(ValidatedForms) = 1 /\ Len(ValidatedRecords) = 1
  /\ ValidatedForms[1].Arendeinformation.kind = "object"
  /\ getTextContent(ValidatedForms[1].Arendeinformation.Arendeagare) = Thirteen
  /\ getTextContent(ValidatedRecords[1].BetalningsmottagarId) = Eleven
  /\ Reported("Organisationsnummer must be 12 digits", 0)
  /\ Reported("Arendeagare must be 12 digits in Blankett", 1)
  /\ Reported("BetalningsmottagarId must be 12 digits in Franvarouppgift", 1)


\* The content block is an element without children.
EmptyBlock(e) ==
  e.kind = "object" /\ \A child \in DOMAIN e \ {"kind"} : e[child].kind = "undefined"

\* The case-owner id and the period of a form: Undefined when the form has
\* no Arendeinformation.
OwnerOf(form) ==
  IF form.Arendeinformation.kind = "object"
  THEN form.Arendeinformation.Arendeagare ELSE Undefined

PeriodOf(form) ==
  IF form.Arendeinformation.kind = "object"
  THEN form.Arendeinformation.Period ELSE Undefined

\* The errors of form k that name a missing case-owner id or period: the
\* error of the field, or the error of the Arendeinformation that would
\* hold it.
OwnerReported(k) ==
  \/ Reported("Arendeagare is missing in Blankett", k)
  \/ Reported("Arendeinformation is missing in Blankett", k)

PeriodReported(k) ==
  \/ Reported("Period is missing in Blankett", k)
  \/ Reported("Arendeinformation is missing in Blankett", k)

\* C14: validateXML reports an error when the document has no form, and for
\* the form at position k (counted from 1, the number in the error text) an
\* error for a missing case-owner id, an error for a missing period, and an
\* error for a content block that is missing or empty.
C14_FormRules ==
  HasRoot =>
    /\ Len(ValidatedForms) = 0 => Reported("No Blankett elements found", 0)
    /\ \A k \in 1..Len(ValidatedForms) :
         LET form == ValidatedForms[k]
         IN  /\ MissingText(OwnerOf(form)) => OwnerReported(k)
             /\ MissingText(PeriodOf(form)) => PeriodReported(k)
             /\ (form.Blankettinnehall.kind = "undefined" \/ EmptyBlock(form.Blankettinnehall))
                  => Reported("Blankettinnehall is missing in Blankett", k)

\* The field is reported as missing for record k.
FieldReported(field, k) ==
  CASE field = "AgRegistreradId" ->
         Reported("AgRegistreradId is missing in Franvarouppgift", k)
    [] field = "BetalningsmottagarId" ->
         Reported("BetalningsmottagarId is missing in Franvarouppgift", k)
    [] field = "FranvaroDatum" ->
         Reported("FranvaroDatum is missing in Franvarouppgift", k)
    [] field = "FranvaroSpecifikationsnummer" ->
         Reported("FranvaroSpecifikationsnummer is missing in Franvarouppgift", k)
    [] field = "RedovisningsPeriod" ->
         Reported("RedovisningsPeriod is missing in Franvarouppgift", k)
    [] field = "FranvaroTyp" ->
         Reported("FranvaroTyp is missing in Franvarouppgift", k)

RequiredFields ==
  { "AgRegistreradId", "BetalningsmottagarId", "FranvaroDatum",
    "FranvaroSpecifikationsnummer", "RedovisningsPeriod", "FranvaroTyp" }

\* C15: for the absence record at position k validateXML reports an error
\* for every required field that is missing or empty, an error for a type
\* that is neither of the two, and, for each of the two types, an error
\* when the percentage and the hours of that type are both missing or
\* empty.
C15_RecordRules ==
  HasRoot =>
    \A k \in 1..Len(ValidatedRecords) :
      LET r == ValidatedRecords[k]
      IN  /\ \A field \in RequiredFields : MissingText(r[field]) => FieldReported(field, k)
          /\ (~MissingText(r.FranvaroTyp) /\ r.FranvaroTyp._text \notin {FP, TFP})
               => Reported("FranvaroTyp must be either TILLFALLIG_FORALDRAPENNING or FORALDRAPENNING in Franvarouppgift", k)
          /\ (/\ ~MissingText(r.FranvaroTyp) /\ r.FranvaroTyp._text = FP
              /\ MissingText(r.FranvaroProcentFP) /\ MissingText(r.FranvaroTimmarFP))
               => Reported("Either FranvaroProcentFP or FranvaroTimmarFP is required for FORALDRAPENNING in Franvarouppgift", k)
          /\ (/\ ~MissingText(r.FranvaroTyp) /\ r.FranvaroTyp._text = TFP
              /\ MissingText(r.FranvaroProcentTFP) /\ MissingText(r.FranvaroTimmarTFP))
               => Reported("Either FranvaroProcentTFP or FranvaroTimmarTFP is required for TILLFALLIG_FORALDRAPENNING in Franvarouppgift", k)

\* A document was validated whose first record is of type FORALDRAPENNING
\* without percentage and hours and whose second record has no date: both
\* errors are in the result, each with the position of its record.
C15_Witness ==
  /\ HasRoot
  /\ Len(ValidatedRecords) = 2
  /\ getTextContent(ValidatedRecords[1].FranvaroTyp) = FP
  /\ MissingText(ValidatedRecords[1].FranvaroProcentFP)
  /\ MissingText(ValidatedRecords[1].FranvaroTimmarFP)
  /\ MissingText(ValidatedRecords[2].FranvaroDatum)
  /\ Reported("Either FranvaroProcentFP or FranvaroTimmarFP is required for FORALDRAPENNING in Franvarouppgift", 1)
  /\ Reported("FranvaroDatum is missing in Franvarouppgift", 2)

\* The parts of a document are complete.
WellFormedEmail(t) ==
  /\ Len(t) = 5
  /\ t[2] = "@" /\ t[4] = "."
  /\ \A k \in {1, 3, 5} : t[k] \notin {"@", ".", " "}

CompleteSender(a) ==
  /\ a.kind = "object"
  /\ ~MissingText(a.Programnamn)
  /\ ~MissingText(a.Organisationsnummer)
  /\ IsTwelveDecimalDigits(a.Organisationsnummer._text)
  /\ ~MissingText(a.Skapad)
  /\ a.TekniskKontaktperson.kind = "object"
  /\ ~MissingText(a.TekniskKontaktperson.Namn)
  /\ ~MissingText(a.TekniskKontaktperson.Telefon)
  /\ ~MissingText(a.TekniskKontaktperson.Epostadress)
  /\ WellFormedEmail(a.TekniskKontaktperson.Epostadress._text)

CompleteForm(form) ==
  /\ ~MissingText(OwnerOf(form))
  /\ IsTwelveDecimalDigits(OwnerOf(form)._text)
  /\ ~MissingText(PeriodOf(form))
  /\ form.Blankettinnehall.kind = "object" /\ ~EmptyBlock(form.Blankettinnehall)

CompleteRecord(r) ==
  /\ \A field \in RequiredFields : ~MissingText(r[field])
  /\ IsTwelveDecimalDigits(r.BetalningsmottagarId._text)
  /\ r.FranvaroTyp._text \in {FP, TFP}
  /\ r.FranvaroTyp._text = FP
       => (~MissingText(r.FranvaroProcentFP) \/ ~MissingText(r.FranvaroTimmarFP))
  /\ r.FranvaroTyp._text = TFP
       => (~MissingText(r.FranvaroProcentTFP) \/ ~MissingText(r.FranvaroTimmarTFP))

\* C16: a document with both namespace attributes, a complete sender block,
\* at least one form, complete forms only and complete absence records only
\* is valid, and its list of errors is empty.
C16_CompleteDocumentIsValid ==
  (/\ HasRoot
   /\ xmlContent.tree.Skatteverket.xmlns # <<>>
   /\ xmlContent.tree.Skatteverket.xmlns_xsi # <<>>
   /\ CompleteSender(xmlContent.tree.Skatteverket.Avsandare)
   /\ Len(ValidatedForms) >= 1
   /\ \A k \in 1..Len(ValidatedForms) : CompleteForm(ValidatedForms[k])
   /\ \A k \in 1..Len(ValidatedRecords) : CompleteRecord(ValidatedRecords[k]))
  => (isValid /\ validationErrors = <<>>)

\* A complete document with two forms and two absence records, one of each
\* type, was validated and found valid.
C16_Witness ==
  /\ HasRoot /\ isValid
  /\ CompleteSender(xmlContent.tree.Skatteverket.Avsandare)
  /\ Len(ValidatedForms) = 2
  /\ Len(ValidatedRecords) = 2
  /\ getTextContent(ValidatedRecords[1].FranvaroTyp) = FP
  /\ getTextContent(ValidatedRecords[2].FranvaroTyp) = TFP


\* The record handleAddFranvaro appended to the list of a case.
NewRecord(arendeIndex) == ListOf(arendeIndex)[Len(ListOf(arendeIndex))]

\* The child of a record is there.
Present(e) == e.kind = "object"

\* A record of type FORALDRAPENNING without percentage and without hours
\* of that type.
ParentalWithoutBoth(r) ==
  /\ getTextContent(r.FranvaroTyp) = FP
  /\ ~Present(r.FranvaroProcentFP) /\ ~Present(r.FranvaroTimmarFP)

\* The result of validateXML for the document generateModifiedXML builds.
BuiltValidation == validateXML(generateModifiedXML(parsedXml, arendeInfoList).value)

\* C17: handleAddFranvaro appends a record for whatever values it is called
\* with, also for type FORALDRAPENNING with neither percentage nor hours;
\* for a document built with such a record validateXML reports the
\* either/or error of FORALDRAPENNING at the position of the record and
\* valid=false; and validateForm accepts no values of that kind, so that a
\* record added by the form is never of that kind.
C17_ParentalWithoutBothIsReported ==
  /\ last.op = "add"
       => /\ Len(ListOf(last.arendeIndex)) >= 1
          /\ NewRecord(last.arendeIndex).ref = 0
  /\ \A i \in ArendeIndices : \A k \in 1..Len(ListOf(i)) :
       (ListOf(i)[k].ref = 0 /\ ParentalWithoutBoth(ListOf(i)[k]))
       => /\ ~BuiltValidation.valid
          /\ \E e \in 1..Len(BuiltValidation.errors) :
               /\ BuiltValidation.errors[e].msg = "Either FranvaroProcentFP or FranvaroTimmarFP is required for FORALDRAPENNING in Franvarouppgift"
               /\ BuiltValidation.errors[e].index = Len(ListsUpTo(i)) + k
  /\ \A formData \in SubmitInputs :
       (/\ formData.franvaroTyp = FP
        /\ formData.franvaroProcentFP = <<>> /\ formData.franvaroTimmarFP = <<>>)
       => ~validateForm(formData)
  /\ (last.op = "submit" /\ last.accepted)
       => ~ParentalWithoutBoth(NewRecord(last.arendeIndex))

\* handleAddFranvaro was called last, with type FORALDRAPENNING and neither
\* percentage nor hours: the record is the second of the list of its case,
\* and the document built with it is not valid.
C17_Witness ==
  /\ last.op = "add"
  /\ Len(ListOf(last.arendeIndex)) = 2
  /\ ParentalWithoutBoth(NewRecord(last.arendeIndex))
  /\ ~BuiltValidation.valid

\* The case at position arendeIndex (counted from 0).
CaseAt(arendeIndex) == arendeInfoList[arendeIndex + 1]

\* The recipient ids a form or another caller hands to handleAddFranvaro.
InputIds == {f.betalningsmottagarId : f \in SubmitInputs \cup DirectInputs}

\* C18 as amended: every record handleAddFranvaro built carries the owner id
\* of its case as employer id and the period of its case as reporting
\* period, and as recipient id the recipient id of the case when the case
\* has one, the recipient id of the input when it has none; so, after every
\* sequence of additions and removals, every record in the list of a case
\* that has a recipient id matches the recipient id and period of the case.
C18_RecordsOfCaseWithIdMatchKey ==
  \A i \in ArendeIndices : \A k \in 1..Len(ListOf(i)) :
    LET r == ListOf(i)[k]
    IN  /\ r.ref = 0
             => /\ getTextContent(r.AgRegistreradId) = CaseAt(i).arendeAgare
                /\ getTextContent(r.RedovisningsPeriod) = CaseAt(i).period
                /\ CaseAt(i).betalningsmottagarId = <<>>
                     => getTextContent(r.BetalningsmottagarId) \in InputIds
        /\ CaseAt(i).betalningsmottagarId # <<>>
             => /\ getTextContent(r.BetalningsmottagarId) = CaseAt(i).betalningsmottagarId
                /\ getTextContent(r.RedovisningsPeriod) = CaseAt(i).period

\* C18 as stated: every record in the list of a case carries the recipient
\* id and the period of the case, the records handleAddFranvaro built the
\* owner id of the case too.
C18_EveryRecordMatchesCaseKey ==
  \A i \in ArendeIndices : \A k \in 1..Len(ListOf(i)) :
    LET r == ListOf(i)[k]
    IN  /\ r.ref = 0 => getTextContent(r.AgRegistreradId) = CaseAt(i).arendeAgare
        /\ getTextContent(r.BetalningsmottagarId) = CaseAt(i).betalningsmottagarId
        /\ getTextContent(r.RedovisningsPeriod) = CaseAt(i).period

\* A record was added last to a case that has a recipient id and held a
\* record of the document: the list holds both, and both carry the
\* recipient id of the case.
C18_Witness ==
  /\ last.op = "add"
  /\ CaseAt(last.arendeIndex).betalningsmottagarId = R1
  /\ Len(ListOf(last.arendeIndex)) = 2
  /\ ListOf(last.arendeIndex)[1].ref > 0
  /\ ListOf(last.arendeIndex)[2].ref = 0
  /\ getTextContent(ListOf(last.arendeIndex)[2].BetalningsmottagarId) = R1

\* The optional child of a record is there exactly when the value of the
\* form is not empty, and then with that value and the field code.
OptionalAsGiven(e, value, faltkod) ==
  /\ Present(e) <=> value # <<>>
  /\ Present(e) => (e._text = value /\ e.faltkod = faltkod)

\* The record carries the field codes and the optional fields of the values.
BuiltFrom(r, franvaro) ==
  /\ r.AgRegistreradId.faltkod = "201"
  /\ r.BetalningsmottagarId.faltkod = "215"
  /\ r.FranvaroDatum.faltkod = "821"
  /\ r.FranvaroSpecifikationsnummer.faltkod = "822"
  /\ r.FranvaroTyp.faltkod = "823"
  /\ r.RedovisningsPeriod.faltkod = "006"
  /\ OptionalAsGiven(r.FranvaroProcentFP, franvaro.franvaroProcentFP, "826")
  /\ OptionalAsGiven(r.FranvaroTimmarFP, franvaro.franvaroTimmarFP, "827")
  /\ OptionalAsGiven(r.FranvaroProcentTFP, franvaro.franvaroProcentTFP, "824")
  /\ OptionalAsGiven(r.FranvaroTimmarTFP, franvaro.franvaroTimmarTFP, "825")

\* The step is a call of handleAddFranvaro for the case with the values,
\* by another caller or by the form (the first two conjuncts follow from the
\* third and are evaluated first).
AddedWith(arendeIndex, franvaro) ==
  /\ last'.op \in {"add", "submit"}
  /\ arendeInfoList' # arendeInfoList
  /\ \/ HandleAddFranvaro(arendeIndex, franvaro)
     \/ (HandleSubmit(arendeIndex, franvaro) /\ validateForm(franvaro))

\* C19: the record handleAddFranvaro builds, called by the form or by
\* another caller, carries the field codes 201, 215, 821, 822, 823 and 006
\* on its required fields, and each of the four optional fields (826, 827,
\* 824, 825) exactly when the value handed in is not empty.
C19_FieldCodesAndOptionalFields ==
  [][\A arendeIndex \in ArendeIndices, franvaro \in SubmitInputs \cup DirectInputs :
       AddedWith(arendeIndex, franvaro)
       => /\ Len(ListOf(arendeIndex)') = Len(ListOf(arendeIndex)) + 1
          /\ BuiltFrom(NewRecord(arendeIndex)', franvaro)]_vars

\* A record was added last that has a percentage of FORALDRAPENNING and
\* hours of TILLFALLIG_FORALDRAPENNING and neither of the two other fields.
C19_Witness ==
  /\ last.op \in {"add", "submit"}
  /\ Len(ListOf(last.arendeIndex)) >= 1
  /\ NewRecord(last.arendeIndex).ref = 0
  /\ Present(NewRecord(last.arendeIndex).FranvaroProcentFP)
  /\ ~Present(NewRecord(last.arendeIndex).FranvaroTimmarFP)
  /\ ~Present(NewRecord(last.arendeIndex).FranvaroProcentTFP)
  /\ Present(NewRecord(last.arendeIndex).FranvaroTimmarTFP)

\* Exactly one of the two children is there.
ExactlyOne(a, b) == Present(a) # Present(b)

\* C20: a record the form added (its values passed validateForm) carries
\* exactly one of percentage and hours of its type: FranvaroProcentFP or
\* FranvaroTimmarFP for FORALDRAPENNING, FranvaroProcentTFP or
\* FranvaroTimmarTFP for TILLFALLIG_FORALDRAPENNING.
C20_ExactlyOneOfPercentageAndHours ==
  (last.op = "submit" /\ last.accepted)
  => LET r == NewRecord(last.arendeIndex)
     IN  /\ getTextContent(r.FranvaroTyp) = FP
              => ExactlyOne(r.FranvaroProcentFP, r.FranvaroTimmarFP)
         /\ getTextContent(r.FranvaroTyp) = TFP
              => ExactlyOne(r.FranvaroProcentTFP, r.FranvaroTimmarTFP)


\* C21: a step of handleAddFranvaro for a case gives the case the list of
\* its records before the step, each unchanged and in the same order,
\* followed by one new record (an object handleAddFranvaro created); the
\* lists of the other cases and the parsed document, which holds the
\* records of the upload, are as before.
C21_AppendsNewRecordLast ==
  [][\A arendeIndex \in ArendeIndices :
       (last'.op = "add" /\ last'.arendeIndex = arendeIndex)
       => LET before == ListOf(arendeIndex)
              after == arendeInfoList'[arendeIndex + 1].franvaroList
          IN  /\ Len(after) = Len(before) + 1
              /\ \A k \in 1..Len(before) : after[k] = before[k]
              /\ after[Len(after)].ref = 0
              /\ \E franvaro \in FranvaroInputs :
                   after[Len(after)] = newFranvaro(arendeInfoList[arendeIndex + 1], franvaro)
              /\ Len(arendeInfoList') = Len(arendeInfoList)
              /\ \A other \in ArendeIndices \ {arendeIndex} :
                   arendeInfoList'[other + 1] = arendeInfoList[other + 1]
              /\ parsedXml' = parsedXml
    ]_vars

\* A record was added to a case that had two records of the document: they
\* are the first two of its list, in the order of the document.
C21_Witness ==
  /\ last.op = "add"
  /\ Len(ListOf(last.arendeIndex)) = 3
  /\ ListOf(last.arendeIndex)[1].ref = 1
  /\ ListOf(last.arendeIndex)[2].ref = 2
  /\ ListOf(last.arendeIndex)[3].ref = 0


\* The element nodes of a text, in their order.
ElementsOf(nodes) == SelectSeq(nodes, LAMBDA n : n.node = "element")

\* C22: for every text x, the text generateXML makes of parseXML(x) has the
\* elements of x, with the same names, attributes and texts, in the same
\* order and number; and parsing it again gives the tree parseXML(x) gave.
C22_RoundTripKeepsContent ==
  last.op = "roundtrip"
  => /\ ElementsOf(last.generated) = ElementsOf(xmlContent)
     /\ xml2js(last.generated) = parsedXml


\* The value extractFromXML reaches with the first k parts of the path.
ReachedAfter(k) ==
  IF k = 0 THEN parsedXml
  ELSE extractFromXML(parsedXml, join(SubSeq(split(last.path), 1, k))).value

\* C23: extractFromXML throws for no object and no path; it returns
\* undefined when a part of the path names nothing, null or an empty text in
\* the value reached with the parts before it, and when that value
\* is a sequence: no path gives an element or a property of a sequence.
C23_ExtractStopsAtSequence ==
  last.op = "extract"
  => /\ ~last.threw
     /\ \A k \in 0..(Len(split(last.path)) - 1) :
          (Falsy(ReachedAfter(k)) \/ ReachedAfter(k).kind = "array")
          => last.value = Undefined


\* A single element as a sequence of one element.
AsSequence(stored) == IF stored.kind = "object" THEN Arr(<<stored>>) ELSE stored

\* The tree with its single form and its single absence record stored as
\* sequences of one element.
WithSequences(tree) ==
  [tree EXCEPT !.Skatteverket.Blankett = AsSequence(@),
               !.Skatteverket.Franvarouppgift = AsSequence(@)]

\* The uploaded document holds one form, or one absence record, as a single
\* node.
SingleNode ==
  /\ last.op = "upload"
  /\ parsedXml.Skatteverket.kind = "object"
  /\ \/ parsedXml.Skatteverket.Blankett.kind = "object"
     \/ parsedXml.Skatteverket.Franvarouppgift.kind = "object"

\* C24: for a document with exactly one form or exactly one absence record,
\* stored as a single node, extractArendeInformation and validateXML give
\* what they give for the same document with sequences of one element: the
\* cases and their lists, and the errors with the number 1 of the element.
\* The single form with an IU is a case, and the single record is in the
\* list of the case with its recipient id and period.
C24_SingleNodeAsSequence ==
  SingleNode =>
    LET sequences == WithSequences(parsedXml)
        root == parsedXml.Skatteverket
    IN  /\ extractArendeInformation(parsedXml) = extractArendeInformation(sequences)
        /\ last.outcome = "ok"
           => /\ arendeInfoList = extractArendeInformation(sequences).value
              /\ validationErrors = validateXML(XmlOf(sequences)).errors
              /\ isValid = validateXML(XmlOf(sequences)).valid
              /\ (root.Blankett.kind = "object" /\ ContainsIU(root.Blankett))
                 => Len(arendeInfoList) = 1
              /\ (root.Blankett.kind = "object"
                    /\ root.Blankett.Arendeinformation.kind = "undefined")
                 => Reported("Arendeinformation is missing in Blankett", 1)
              /\ root.Franvarouppgift.kind = "object"
                 => /\ \A k \in 1..Len(arendeInfoList) :
                         (/\ getTextContent(root.Franvarouppgift.BetalningsmottagarId)
                               = arendeInfoList[k].betalningsmottagarId
                          /\ getTextContent(root.Franvarouppgift.RedovisningsPeriod)
                               = arendeInfoList[k].period)
                         => arendeInfoList[k].franvaroList = <<root.Franvarouppgift>>
                    /\ Missing(root.Franvarouppgift.FranvaroSpecifikationsnummer)
                       => Reported("FranvaroSpecifikationsnummer is missing in Franvarouppgift", 1)

\* A document with one form and one absence record without a specification
\* number was uploaded: the form is the one case, the record is in its list
\* and has its error.
C24_Witness ==
  /\ SingleNode
  /\ last.outcome = "ok"
  /\ parsedXml.Skatteverket.Blankett.kind = "object"
  /\ parsedXml.Skatteverket.Franvarouppgift.kind = "object"
  /\ Len(arendeInfoList) = 1
  /\ arendeInfoList[1].franvaroList = <<parsedXml.Skatteverket.Franvarouppgift>>
  /\ Reported("FranvaroSpecifikationsnummer is missing in Franvarouppgift", 1)


\* C25: in every result of validateXML, valid is true exactly when the list
\* of errors is empty.
C25_ValidIffNoErrors ==
  Validated => (isValid <=> validationErrors = <<>>)

\* A document was validated that is valid and has no error.
C25_Witness ==
  /\ Validated /\ HasRoot
  /\ isValid
  /\ validationErrors = <<>>
  /\ Len(ValidatedForms) = 2


\* The number of positions of the sequence that hold the object r.
Times(records, r) == Cardinality({k \in 1..Len(records) : records[k].ref = r.ref})

\* C26: when nothing was added or removed after the upload of a document
\* with a case (the download is offered), the document generateModifiedXML
\* builds holds every top-level absence record of the uploaded document
\* exactly once, and no other record.
C26_BuiltKeepsTopLevelRecords ==
  (/\ last.op = "upload" /\ last.outcome = "ok"
   /\ Len(arendeInfoList) > 0
   /\ ~generateModifiedXML(parsedXml, arendeInfoList).threw)
  => LET original == TopLevelFranvaro(parsedXml)
         built == TopLevelFranvaro(generateModifiedXML(parsedXml, arendeInfoList).value.tree)
     IN  /\ Len(built) = Len(original)
         /\ \A k \in 1..Len(original) : Times(built, original[k]) = 1


\* C27: after an upload (of a text that parses and whose cases were
\* extracted, or of a text that does not parse), the cases, the errors and
\* the validity held are those of the text uploaded last: for a text that
\* does not parse no case, not valid, and no error or the error of
\* validateXML for it.
C27_StateOfLastUpload ==
  (last.op = "upload" /\ last.outcome \in {"ok", "parse error"})
  => IF parseXML(xmlContent).threw
     THEN /\ arendeInfoList = <<>>
          /\ ~isValid
          /\ validationErrors \in {<<>>, validateXML(xmlContent).errors}
     ELSE /\ arendeInfoList = extractArendeInformation(parseXML(xmlContent).value).value
          /\ isValid = validateXML(xmlContent).valid
          /\ validationErrors = validateXML(xmlContent).errors


\* C28: when the uploaded document is valid (the download is enabled), then
\* after any removals and additions made with the form the text that is
\* downloaded is valid for validateXML.
C28_DownloadedDocumentIsValid ==
  (/\ isValid /\ Len(arendeInfoList) > 0
   /\ ~modifiedXml(parsedXml, arendeInfoList).threw)
  => validateXML(XmlOf(downloadedXml(parsedXml, arendeInfoList))).valid


\* C29: after an accepted submission of the form, with the state updates
\* and the effect run, the date field holds the day after the submitted
\* date, or the last day of the period when that day is later.
C29_DateIsNextDay ==
  (last.op = "submit" /\ last.accepted)
    => last.franvaroDatum =
         Min(last.submitted[1] + 1,
             getPeriodDates(last.period, last.today, last.zone).lastDay)


\* C30: a record the form added (its values passed validateForm) carries
\* percentage and hours of its own type only: one of type FORALDRAPENNING
\* has neither FranvaroProcentTFP nor FranvaroTimmarTFP, one of type
\* TILLFALLIG_FORALDRAPENNING neither FranvaroProcentFP nor FranvaroTimmarFP.
C30_FieldsOfOwnTypeOnly ==
  (last.op = "submit" /\ last.accepted)
  => LET r == NewRecord(last.arendeIndex)
     IN  /\ getTextContent(r.FranvaroTyp) = FP
              => ~Present(r.FranvaroProcentTFP) /\ ~Present(r.FranvaroTimmarTFP)
         /\ getTextContent(r.FranvaroTyp) = TFP
              => ~Present(r.FranvaroProcentFP) /\ ~Present(r.FranvaroTimmarFP)

====
